---- MODULE Spec2Model ----
(***************************************************************************)
(* Model of the conversational state engine of the TinRed invoicing agent  *)
(* (backend/app): session model, slot extractor, intent classifier,        *)
(* dialogue orchestrator and emission workflow.                            *)
(*                                                                         *)
(* Text is modelled as a sequence of lower-cased tokens.  A token is a     *)
(* record [k, s]: k = "w" a word made of letters, k = "n" a run of digits, *)
(* k = "p" a punctuation mark.  Tokens are separated by one blank, except  *)
(* that a punctuation mark is attached to the token before it.  The token  *)
(* "si" stands for the utterance "Sí"/"si" (every rule of the source that  *)
(* accepts one accepts the other).                                         *)
(***************************************************************************)
EXTENDS Integers, Sequences, FiniteSets, TLC

VARIABLES
    session,    \* the UserSession of the caller (schemas.UserSession)
    message,    \* the utterance handled by the last turn
    reply,      \* the reply returned by the last turn
    calls,      \* the issuing-service calls made during the last turn
    arrived,    \* the requests the server has received and not handled yet
    idle,       \* the hours since session.last_activity
    other       \* the UserSession under a second phone key

vars == <<session, message, reply, calls, arrived, idle, other>>

None == "None"

W(s) == [k |-> "w", s |-> s]
N(s) == [k |-> "n", s |-> s]
P(s) == [k |-> "p", s |-> s]

IsWord(t) == t.k = "w"
IsNum(t) == t.k = "n"

\* Sequence helpers.
Range(f) == {f[i] : i \in DOMAIN f}

\* The least element of a set of indices, 0 when it is empty (re.search: the
\* leftmost match).
MinOf(S) == IF S = {} THEN 0 ELSE CHOOSE i \in S : \A j \in S : i <= j

Last(seq, n) == IF Len(seq) <= n THEN seq ELSE SubSeq(seq, Len(seq) - n + 1, Len(seq))

(***************************************************************************)
(* Numbers.  The integer value of the digit strings the model uses (int()  *)
(* and float() of the source); a RUC does not fit TLC's integers and is    *)
(* never needed as a value.                                                *)
(***************************************************************************)
IntOf(s) ==
    CASE s = "0" -> 0
      [] s = "1" -> 1
      [] s = "2" -> 2
      [] s = "3" -> 3
      [] s = "5" -> 5
      [] s = "9" -> 9
      [] s = "10" -> 10
      [] s = "15" -> 15
      [] s = "20" -> 20
      [] s = "30" -> 30
      [] s = "40" -> 40
      [] s = "50" -> 50
      [] s = "2500" -> 2500
      [] s = "00999999" -> 999999
      [] s = "11111111" -> 11111111
      [] s = "12345678" -> 12345678
      [] s = "87654321" -> 87654321

\* [12]0\d{9}: eleven digits that start with 10 or 20.
RucShaped(s) == Len(s) = 11 /\ s \in {"20161541991", "10456789012", "20999999999"}

\* A decimal string: the digits s followed by dec zero decimals ("15" is
\* Dec("15", 0), "15.00" is Dec("15", 2), "2500.0" is Dec("2500", 1)).
Dec(s, dec) == [s |-> s, dec |-> dec]

\* f"{float(x):.2f}"
Fmt2(d) == Dec(d.s, 2)

NoPrice == Dec(None, 0)

(***************************************************************************)
(* Substrings.  Python's `needle in text` on the words of the vocabulary:  *)
(* <<needle, word>> is in Contains iff needle is a proper substring of     *)
(* word; StartsWith likewise for proper prefixes.                          *)
(***************************************************************************)
Contains ==
    { <<"producto", "productos">>, <<"cancela", "cancelar">>,
      <<"dolar", "dolares">>, <<"busca", "buscar">>,
      <<"si", "casi">> }

StartsWithTab ==
    { <<"cancela", "cancelar">>, <<"busca", "buscar">>, <<"producto", "productos">>,
      <<"factura", "facturas">>, <<"boleta", "boletas">> }

InWord(needle, word) == needle = word \/ <<needle, word>> \in Contains

\* needle in text, for a needle without blanks.
HasSub(m, needle) == \E i \in DOMAIN m : InWord(needle, m[i].s)

\* \bword\b in text.
HasWord(m, word) == \E i \in DOMAIN m : m[i].s = word

\* \bw1 w2\b in text.
HasPhrase(m, w1, w2) ==
    \E i \in 1..(Len(m) - 1) : m[i].s = w1 /\ m[i + 1].s = w2 /\ m[i + 1].k # "p"

\* len(text)
RECURSIVE TextLenFrom(_, _)
TextLenFrom(m, i) ==
    IF i > Len(m) THEN 0
    ELSE Len(m[i].s) + (IF i > 1 /\ m[i].k # "p" THEN 1 ELSE 0) + TextLenFrom(m, i + 1)

TextLen(m) == TextLenFrom(m, 1)

\* text with the trailing [\s\.\!\,]* removed.
RECURSIVE StripTrail(_)
StripTrail(m) ==
    IF m # <<>> /\ m[Len(m)].k = "p" /\ m[Len(m)].s \in {".", "!", ","}
    THEN StripTrail(SubSeq(m, 1, Len(m) - 1))
    ELSE m

Strs(m) == [i \in DOMAIN m |-> m[i].s]

(***************************************************************************)
(* models/schemas.py                                                       *)
(***************************************************************************)
InvoiceItem(cantidad, descripcion, precio) ==
    [cantidad |-> cantidad, descripcion |-> descripcion, precio |-> precio]

\* EmissionData(): the field defaults.
EmissionData ==
    [document_type |-> None, currency |-> "PEN", id_type |-> None, id_number |-> None,
     items |-> <<>>, client_validated |-> FALSE, client_name |-> None]

\* EmissionData.get_missing_fields
get_missing_fields(e) ==
    (IF e.document_type = None THEN <<"tipo_documento">> ELSE <<>>)
    \o (IF e.id_type = None \/ e.id_number = None THEN <<"identificacion_cliente">> ELSE <<>>)
    \o (IF e.items = <<>> THEN <<"productos">> ELSE <<>>)

\* selected_product = None
NoProduct == [pronom |-> None, provun |-> None]

\* UserSession(): the field defaults.
UserSession ==
    [authenticated |-> FALSE, terms_accepted |-> FALSE, client_data |-> None,
     emission_data |-> EmissionData,
     awaiting_confirmation |-> FALSE, awaiting_client_reconfirmation |-> FALSE,
     pending_items |-> <<>>,
     conversation_context |-> None, search_results |-> <<>>, selected_product |-> NoProduct,
     context |-> [loaded |-> FALSE, products |-> <<>>, history |-> <<>>],
     messages |-> <<>>, session_emissions |-> <<>>]

\* UserSession.add_message: append, keep the last 20.
MAX_CONVERSATION_HISTORY == 20

\* add_message without lines 191 and 192.
add_message_keeps_all(s, role, content) ==
    [s EXCEPT !.messages = Append(@, [role |-> role, content |-> content])]

add_message(s, role, content) ==
    [s EXCEPT !.messages =
        Last(Append(@, [role |-> role, content |-> content]), MAX_CONVERSATION_HISTORY)]

\* reset_emission without line 197, the call of EmissionData.reset.
reset_emission_flags_only(s) ==
    [s EXCEPT !.awaiting_confirmation = FALSE,
              !.awaiting_client_reconfirmation = FALSE,
              !.pending_items = <<>>,
              !.selected_product = NoProduct]

\* UserSession.reset_emission (with EmissionData.reset)
reset_emission(s) ==
    [s EXCEPT !.emission_data = EmissionData,
              !.awaiting_confirmation = FALSE,
              !.awaiting_client_reconfirmation = FALSE,
              !.pending_items = <<>>,
              !.selected_product = NoProduct]

\* UserSession.set_context(context), search_results left alone
set_context(s, ctx) == [s EXCEPT !.conversation_context = ctx]

\* UserSession.clear_context
clear_context(s) ==
    [s EXCEPT !.conversation_context = None, !.search_results = <<>>,
              !.selected_product = NoProduct]

(***************************************************************************)
(* agents/data_extractor.py                                                *)
(***************************************************************************)
NoId == [type |-> None, number |-> None]

\* The token after position i, skipping one optional ":".
AfterLabel(m, i) ==
    IF i + 1 <= Len(m) /\ m[i + 1].s = ":" THEN i + 2 ELSE i + 1

\* DataExtractor._extract_id
_extract_id(m) ==
    LET dni_explicit == MinOf({i \in DOMAIN m :
            /\ m[i].s = "dni"
            /\ AfterLabel(m, i) <= Len(m)
            /\ IsNum(m[AfterLabel(m, i)])
            /\ Len(m[AfterLabel(m, i)].s) = 8})
        ruc_explicit == MinOf({i \in DOMAIN m :
            /\ m[i].s = "ruc"
            /\ AfterLabel(m, i) <= Len(m)
            /\ IsNum(m[AfterLabel(m, i)])
            /\ RucShaped(m[AfterLabel(m, i)].s)})
        ruc_match == MinOf({i \in DOMAIN m : IsNum(m[i]) /\ RucShaped(m[i].s)})
        dni_matches == {i \in DOMAIN m :
            IsNum(m[i]) /\ Len(m[i].s) = 8 /\ IntOf(m[i].s) >= 1000000}
    IN  IF dni_explicit # 0 THEN [type |-> "1", number |-> m[AfterLabel(m, dni_explicit)].s]
        ELSE IF ruc_explicit # 0 THEN [type |-> "6", number |-> m[AfterLabel(m, ruc_explicit)].s]
        ELSE IF ruc_match # 0 THEN [type |-> "6", number |-> m[ruc_match].s]
        ELSE IF dni_matches # {} THEN [type |-> "1", number |-> m[MinOf(dni_matches)].s]
        ELSE NoId

\* palabras_numero: a number word followed by a blank becomes its digits.
palabras_numero(w) ==
    CASE w \in {"un", "uno", "una"} -> "1"
      [] w = "dos" -> "2"
      [] w = "tres" -> "3"
      [] w = "cuatro" -> "4"
      [] w = "cinco" -> "5"
      [] w = "seis" -> "6"
      [] w = "siete" -> "7"
      [] w = "ocho" -> "8"
      [] w = "nueve" -> "9"
      [] w = "diez" -> "10"
      [] OTHER -> None

\* text.replace(exclude_number, " "), lower(), number words to digits.
Normalized(m, exclude_number) ==
    LET kept == SelectSeq(m, LAMBDA t : ~(IsNum(t) /\ t.s = exclude_number))
    IN  [i \in DOMAIN kept |->
            IF IsWord(kept[i]) /\ palabras_numero(kept[i].s) # None
               /\ i < Len(kept) /\ kept[i + 1].k # "p"
            THEN N(palabras_numero(kept[i].s))
            ELSE kept[i]]

\* (?:PEN|USD|S/|s/|\$)
CurrencyMark == {"pen", "usd", "s/", "$"}

\* Position of the price that follows the separator at j: optional currency
\* mark, then digits; 0 if there is none.
PriceAfter(m, j) ==
    IF j + 1 <= Len(m) /\ IsNum(m[j + 1]) THEN j + 1
    ELSE IF j + 2 <= Len(m) /\ m[j + 1].s \in CurrencyMark /\ IsNum(m[j + 2]) THEN j + 2
    ELSE 0

\* The words m[a..b] joined by blanks.
RECURSIVE JoinWords(_, _, _)
JoinWords(m, a, b) ==
    IF a > b THEN ""
    ELSE IF a = b THEN m[a].s
    ELSE m[a].s \o " " \o JoinWords(m, a + 1, b)

NoMatch == [end |-> 0, item |-> None]

\* Patterns 1 and 2 at token i: digits (1 to 4), a description of letters
\* and blanks (2 to 31 characters, the shortest that lets the rest match),
\* a separator, an optional currency mark, the price.
PricedAt(m, i, seps) ==
    IF ~(IsNum(m[i]) /\ Len(m[i].s) <= 4) THEN NoMatch
    ELSE
    LET ends == {j \in (i + 2)..Len(m) :
            /\ \A q \in (i + 1)..(j - 1) : IsWord(m[q])
            /\ m[j].s \in seps
            /\ PriceAfter(m, j) # 0
            /\ Len(JoinWords(m, i + 1, j - 1)) >= 2
            /\ Len(JoinWords(m, i + 1, j - 1)) <= 31}
        j == MinOf(ends)
    IN  IF j = 0 THEN NoMatch
        ELSE [end |-> PriceAfter(m, j),
              item |-> InvoiceItem(m[i].s, JoinWords(m, i + 1, j - 1),
                                   Dec(m[PriceAfter(m, j)].s, 0))]

\* Pattern 3 at token i: one word of 3 to 21 letters, a/@/por, the price;
\* the quantity is 1.
WordPricedAt(m, i) ==
    IF /\ IsWord(m[i]) /\ Len(m[i].s) >= 3 /\ Len(m[i].s) <= 21
       /\ i + 1 <= Len(m) /\ m[i + 1].s \in {"a", "@", "por"}
       /\ PriceAfter(m, i + 1) # 0
    THEN [end |-> PriceAfter(m, i + 1),
          item |-> InvoiceItem("1", m[i].s, Dec(m[PriceAfter(m, i + 1)].s, 0))]
    ELSE NoMatch

\* Unpriced pattern at token i: digits (1 to 3) and a word of 3 or more letters.
UnpricedAt(m, i) ==
    IF /\ IsNum(m[i]) /\ Len(m[i].s) <= 3
       /\ i + 1 <= Len(m) /\ IsWord(m[i + 1]) /\ Len(m[i + 1].s) >= 3
    THEN [end |-> i + 1, item |-> [cantidad |-> m[i].s, descripcion |-> m[i + 1].s]]
    ELSE NoMatch

\* re.finditer: the matches from left to right, none overlapping another.
\* which: 1 = pattern 1, 2 = pattern 2, 3 = pattern 3, 4 = unpriced.
MatchAt(m, i, which) ==
    CASE which = 1 -> PricedAt(m, i, {"a", "@"})
      [] which = 2 -> PricedAt(m, i, {"por", "de"})
      [] which = 3 -> WordPricedAt(m, i)
      [] which = 4 -> UnpricedAt(m, i)

RECURSIVE finditer(_, _, _)
finditer(m, i, which) ==
    IF i > Len(m) THEN <<>>
    ELSE IF MatchAt(m, i, which).end # 0
         THEN <<MatchAt(m, i, which).item>> \o finditer(m, MatchAt(m, i, which).end + 1, which)
         ELSE finditer(m, i + 1, which)

ItemKey(it) == <<it.descripcion, it.precio>>

\* The loop body shared by the three priced patterns: keep a match whose
\* (description, price) was not seen and whose price is positive.
RECURSIVE KeepNew(_, _, _)
KeepNew(items, found, skip) ==
    IF found = <<>> THEN items
    ELSE LET it == Head(found)
             keep == /\ it.descripcion \notin skip
                     /\ ItemKey(it) \notin {ItemKey(items[k]) : k \in DOMAIN items}
                     /\ it.descripcion # ""
                     /\ IntOf(it.precio.s) > 0
         IN  KeepNew(IF keep THEN Append(items, it) ELSE items, Tail(found), skip)

RECURSIVE KeepNewUnpriced(_, _)
KeepNewUnpriced(items, found) ==
    IF found = <<>> THEN items
    ELSE LET it == Head(found)
             keep == /\ it.descripcion \notin {"dni", "ruc", "para", "cliente", "boleta",
                                              "factura", "soles", "dolares", "documento"}
                     /\ it.descripcion \notin {items[k].descripcion : k \in DOMAIN items}
         IN  KeepNewUnpriced(IF keep THEN Append(items, it) ELSE items, Tail(found))

\* DataExtractor._extract_items: <<items, items_sin_precio>>
_extract_items(m, exclude_number) ==
    LET text == Normalized(m, exclude_number)
        i1 == KeepNew(<<>>, finditer(text, 1, 1), {})
        i2 == KeepNew(i1, finditer(text, 1, 2), {})
        i3 == KeepNew(i2, finditer(text, 1, 3),
                      {"factura", "boleta", "dni", "ruc", "para", "cliente", "documento"})
    IN  <<i3, IF i3 = <<>> THEN KeepNewUnpriced(<<>>, finditer(text, 1, 4)) ELSE <<>>>>

\* DataExtractor.extract_all
extract_all(m) ==
    LET id_info == _extract_id(m)
        keyword == IF HasWord(m, "factura") THEN "01"
                   ELSE IF HasWord(m, "boleta") THEN "03" ELSE None
        found == _extract_items(m, id_info.number)
    IN  [document_type |-> IF keyword = None /\ id_info.type = "1" THEN "03" ELSE keyword,
         id_type |-> id_info.type,
         id_number |-> id_info.number,
         currency |-> IF \E w \in {"dolar", "dolares", "usd", "$"} : HasSub(m, w)
                      THEN "USD" ELSE "PEN",
         items |-> found[1],
         items_sin_precio |-> found[2]]

\* The loop of update_session without the test of line 230.
MergeItems_appends(items, new) == items \o new

\* The loop of update_session: append the items whose key is not there yet.
RECURSIVE MergeItems(_, _)
MergeItems(items, new) ==
    IF new = <<>> THEN items
    ELSE MergeItems(
            IF ItemKey(Head(new)) \in {ItemKey(items[k]) : k \in DOMAIN items}
            THEN items ELSE Append(items, Head(new)),
            Tail(new))

\* update_session without the "not emission.id_type" guard of line 219: an
\* ID in the utterance replaces the one already captured.
update_session_overwrites_id(s, extracted) ==
    LET e == s.emission_data
        set_id == extracted.id_type # None
    IN  [s EXCEPT !.emission_data =
            [e EXCEPT
                !.document_type = IF extracted.document_type # None /\ @ = None
                                  THEN extracted.document_type ELSE @,
                !.id_type = IF set_id THEN extracted.id_type ELSE @,
                !.id_number = IF set_id THEN extracted.id_number ELSE @,
                !.currency = extracted.currency,
                !.items = MergeItems(@, extracted.items)]]

\* DataExtractor.update_session
update_session(s, extracted) ==
    LET e == s.emission_data
        set_id == extracted.id_type # None /\ e.id_type = None
    IN  [s EXCEPT !.emission_data =
            [e EXCEPT
                !.document_type = IF extracted.document_type # None /\ @ = None
                                  THEN extracted.document_type ELSE @,
                !.id_type = IF set_id THEN extracted.id_type ELSE @,
                !.id_number = IF set_id THEN extracted.id_number ELSE @,
                !.currency = extracted.currency,
                !.items = MergeItems(@, extracted.items)]]

(***************************************************************************)
(* Replies.  A reply is [kind, data]: the template that produced the text  *)
(* and the values filled into it.  Render gives the tokens of the text     *)
(* that some rule of the source can read back from the message history     *)
(* (document words, document numbers, item phrases, command words); "|"    *)
(* separates the lines.  Amounts (subtotals, totals) are not modelled.     *)
(***************************************************************************)
Reply(kind, data) == [kind |-> kind, data |-> data]

NoData == [none |-> TRUE]

RECURSIVE RenderItems(_)
\* "  * {cantidad}x {descripcion} @ S/{precio:.2f}" per item
RenderItems(items) ==
    IF items = <<>> THEN <<>>
    ELSE <<P("*"), W(Head(items).descripcion), P("@"), N(Head(items).precio.s), P("|")>>
         \o RenderItems(Tail(items))

ExampleRuc == <<W("ruc"), N("20161541991")>>
ExampleDni == <<W("dni"), N("12345678")>>
ExampleLaptops(n) == <<N(n), W("laptops"), W("a"), N("2500")>>
MenuLine == <<W("factura"), P("|"), W("boleta"), P("|"), W("historial")>>
MainMenu == <<W("emitir"), W("factura"), P("|"), W("emitir"), W("boleta"), P("|"),
              W("ver"), W("productos"), P("|"), W("historial")>>

Render(r) ==
    LET d == r.data IN
    CASE r.kind = "cancelled_op" -> <<W("operacion"), W("cancelada"), P("|")>> \o MenuLine
      [] r.kind = "cancelled" -> <<W("cancelado"), P("|")>> \o MenuLine
      [] r.kind = "menu" -> MainMenu
      [] r.kind = "ask_ruc" -> <<W("dame"), W("el"), W("ruc"), P("|"), W("ejemplo"), P(":"),
                                 N("20161541991")>>
      [] r.kind = "ask_dni" -> <<W("dame"), W("el"), W("dni"), P("|"), W("ejemplo"), P(":"),
                                 N("12345678")>>
      [] r.kind = "ask_price" -> <<N(d.cantidad), W(d.descripcion), P("|"), W("precio"),
                                   W("unitario"), P("?")>>
      [] r.kind = "initial_instructions" ->
            IF d.document_type = "01"
            THEN <<W("vamos"), W("con"), W("la"), W("factura"), P("|"), W("productos"), P("|")>>
                 \o ExampleRuc \o <<P(",")>> \o ExampleLaptops("3") \o <<P("|"), W("ruc")>>
            ELSE <<W("vamos"), W("con"), W("la"), W("boleta"), P("|"), W("dni"), W("o"),
                   W("ruc"), P("|"), W("productos"), P("|")>>
                 \o ExampleDni \o <<P(","), N("2"), W("camisas"), W("a"), N("50"), P("|"),
                                   W("documento")>>
      [] r.kind = "client_found" ->
            <<W("cliente"), W("encontrado"), P("|"), W(d.id_tipo), P(":"), N(d.id_number),
              P("|"), W("productos"), P("|")>>
            \o ExampleLaptops("2") \o <<P(","), N("3"), W("cables"), W("a"), N("50")>>
      [] r.kind = "client_not_found" ->
            <<W("documento"), N(d.id_number), W("no"), W("fue"), W("encontrado"), P("|")>>
            \o (IF d.items # <<>>
                THEN <<W("tus"), W("productos"), P("|")>> \o RenderItems(d.items)
                ELSE <<>>)
            \o <<W("dni"), P("|"), W("ruc")>>
      [] r.kind = "no_valid_document" ->
            <<W("documento"), P("|")>> \o ExampleDni \o <<P("|")>> \o ExampleRuc
            \o <<P("|"), W("cancelar"), W("para"), W("salir")>>
      [] r.kind = "need_id" -> <<W("dni"), W("o"), W("ruc"), W("del"), W("cliente")>>
      [] r.kind = "ask_id" -> <<W("dni"), W("o"), W("ruc"), P(":")>>
      [] r.kind = "ask_products" -> <<W("productos"), P("?"), P("|")>> \o ExampleLaptops("2")
      [] r.kind = "ask_products_for" ->
            <<W("cliente"), P("|"), W("doc"), P(":"), N(d.id_number), P("|"),
              W("productos"), P("?"), P("|")>> \o ExampleLaptops("2")
      [] r.kind = "ask_document_type" -> <<W("factura"), W("o"), W("boleta"), P("?")>>
      [] r.kind = "ask_document_type_ruc" ->
            <<W("ruc"), N(d.id_number), P("|"), W("factura"), W("o"), W("boleta"), P("?")>>
      [] r.kind = "ask_id_kind" -> <<W("dni"), W("o"), W("ruc"), W("del"), W("cliente"), P("?")>>
      [] r.kind = "review" ->
            <<W(d.tipo), P("|"), W(d.id_tipo), P(":"), N(d.id_number), P("|"),
              W("productos"), P(":"), P("|")>>
            \o RenderItems(d.items) \o <<W("total"), P("|"), W("emitir"), P("?")>>
      [] r.kind = "emitted" -> <<W(d.tipo), W("emitida"), P("|"), W("pdf")>>
      [] r.kind = "emit_error" -> <<W("error"), P(":")>>
      [] r.kind = "emit_exception" -> <<W("error"), P(":")>>
      [] r.kind = "product_selected" ->
            <<W("producto"), W("seleccionado"), P(":"), W(d.pronom), P("|"),
              W("factura"), W("requiere"), W("ruc"), P("|"), W("boleta"), W("dni"), W("o"),
              W("ruc")>>
      [] r.kind = "product_detail" ->
            <<W("producto"), P("#"), N(d.index), P("|"), W(d.pronom), P("|"),
              W("deseas"), W("emitir"), W("un"), W("comprobante"), P("?")>>
      [] r.kind = "product_list" -> <<W("tus"), W("productos"), P("|"), W("busca"), W("laptop")>>
      [] r.kind = "no_products" -> <<W("no"), W("tienes"), W("productos"), P("."), W("puedes"),
                                     W("emitir")>>
      [] r.kind = "search_results" -> <<W("resultados"), W("para"), P("|"), W("emitir")>>
      [] r.kind = "history_list" ->
            <<W("tu"), W("historial"), P("|")>>
            \o (IF d.history > 0 THEN <<W("ultimas"), W("emisiones"), P("|")>> \o d.tipos
                ELSE <<>>)
      [] r.kind = "history_detail" ->
            <<W("detalle"), W("de"), W(d.tipo), P("#"), N(d.index), P("|"),
              W(d.tipo_doc), P(":"), N(d.doc_cliente), P("|"), W("emision")>>
      [] r.kind = "today_detail" ->
            <<W("detalle"), W("de"), W(d.tipo), P("|"), W("cliente"), P(":"),
              N(d.client_id), P("|"), W("pdf")>>
      [] r.kind = "difference" ->
            <<W("factura"), W("vs"), W("boleta"), P("|"), W("ruc"), P("|"), W("dni"), W("o"),
              W("ruc"), P("|"), W("emitir"), P("?")>>
      [] r.kind = "igv" -> <<W("igv"), P("|"), W("facturas"), P("|"), W("boletas")>>
      [] r.kind = "how_to_emit" ->
            <<W("como"), W("emitir"), P(":"), P("|"), W("factura"), P("/"), W("boleta"),
              P("|"), W("boleta")>> \o ExampleDni
            \o <<P(","), N("2"), W("camisas"), W("a"), N("50")>>
      [] r.kind = "greeting" ->
            IF d.today > 0 THEN <<W("hola"), P("|"), W("hoy"), P("|"), W("total")>>
            ELSE <<W("hola"), P("|")>> \o MenuLine
      [] r.kind = "number_unclear" -> <<W("productos"), P("|"), W("historial")>>
      [] OTHER -> <<>>

\* The text of a message of the history.
Text(msg) == IF msg.role = "user" THEN msg.content ELSE Render(msg.content)

(***************************************************************************)
(* The issuing service.  check-client answers "01" for the numbers of its  *)
(* client register and "00" for the others; env.check = "error" is a       *)
(* transport error.  env.emit is what store_agente_api does: it answers    *)
(* success "TRUE" or "FALSE", or the call raises.                          *)
(***************************************************************************)
Registered == {"12345678", "87654321", "20161541991"}

ClientName(number) == "cliente " \o number

Envs == [check : {"answer", "error"}, emit : {"TRUE", "FALSE", "raise"}]

\* TinRedClient.check_client: (exists, name or message)
check_client(number, env) ==
    IF env.check = "answer" /\ number \in Registered
    THEN [valid |-> TRUE, result |-> ClientName(number)]
    ELSE [valid |-> FALSE, result |-> "no"]

CheckCall(number, env) ==
    [op |-> "check_client", number |-> number, valid |-> check_client(number, env).valid,
     error |-> env.check = "error"]

\* The payload built by TinRedClient.emit_invoice, with the EmissionData
\* it was built from.
EmitCall(e, env) ==
    [op |-> "emit_invoice",
     emission |-> e,
     tdocod |-> e.document_type, mondoc |-> e.currency,
     tdicod |-> e.id_type, clinum |-> e.id_number,
     cant |-> [i \in DOMAIN e.items |-> e.items[i].cantidad],
     detpro |-> [i \in DOMAIN e.items |-> e.items[i].descripcion],
     preuni |-> [i \in DOMAIN e.items |-> Fmt2(e.items[i].precio)],
     success |-> env.emit]

\* What a handler hands back: the session as it left it, its reply, and
\* the service calls it made.
Ret(s, r, c) == [s |-> s, r |-> r, c |-> c]

(***************************************************************************)
(* agents/intent_classifier.py: the confirmation and cancellation tests    *)
(***************************************************************************)
AFFIRMATIVE ==
    { <<"si">>, <<"yes">>, <<"ok">>, <<"okey">>, <<"okay">>, <<"dale">>, <<"confirmo">>,
      <<"acepto">>, <<"adelante">>, <<"procede">>, <<"emite">>, <<"correcto">>, <<"claro">>,
      <<"por", "supuesto">>, <<"esta", "bien">>, <<"de", "acuerdo">>, <<"listo">>,
      <<"perfecto">> }

\* IntentClassifier.is_confirmation
is_confirmation(m) == Strs(StripTrail(m)) \in AFFIRMATIVE

\* IntentClassifier.is_cancellation (NEGATIVE)
is_cancellation(m) ==
    \/ Strs(StripTrail(m)) \in {<<"no">>, <<"nop">>, <<"nope">>, <<"cancelar">>,
                                <<"cancela">>, <<"olvida">>}
    \/ HasPhrase(m, "mejor", "no")
    \/ HasPhrase(m, "no", "quiero")
    \/ \E w \in {"detener", "parar", "salir"} : HasWord(m, w)

(***************************************************************************)
(* agents/emission_agent.py                                                *)
(***************************************************************************)
cancellation_words ==
    { <<"cancelar">>, <<"cancela">>, <<"cancelalo">>, <<"no", "quiero">>, <<"no", "deseo">>,
      <<"olvida">>, <<"olvidalo">>, <<"salir">>, <<"sal">>, <<"detener">>, <<"parar">>,
      <<"para">>, <<"dejalo">>, <<"ya", "no">>, <<"mejor", "no">>, <<"no", "gracias">>,
      <<"nada">>, <<"ninguno">> }

\* msg == word, or msg starts with word + ' ' or word + ','
LeadsWith(m, word) ==
    /\ Len(m) >= Len(word)
    /\ Strs(SubSeq(m, 1, Len(word))) = word
    /\ \A i \in 2..Len(word) : m[i].k # "p"
    /\ Len(m) > Len(word) => (m[Len(word) + 1].k # "p" \/ m[Len(word) + 1].s = ",")

\* EmissionAgent._is_cancellation
_is_cancellation(m) ==
    \/ \E word \in cancellation_words : LeadsWith(m, word)
    \/ \E w \in {"cancelar", "cancela", "olvida", "salir"} : HasSub(m, w)
    \/ HasPhrase(m, "no", "quiero")

\* EmissionAgent._has_complete_data
_has_complete_data(e) ==
    e.document_type # None /\ e.id_number # None /\ e.items # <<>>

\* Adjacent runs of digits joined: re.sub(r'(\d)\s+(?=\d)', r'\1', message)
RECURSIVE JoinDigits(_)
JoinDigits(m) ==
    IF Len(m) < 2 THEN m
    ELSE IF IsNum(m[1]) /\ IsNum(m[2])
         THEN JoinDigits(<<N(m[1].s \o m[2].s)>> \o SubSeq(m, 3, Len(m)))
         ELSE <<m[1]>> \o JoinDigits(Tail(m))

\* re.search(r'\b([12]0\d{9})\b', text): position of the first match, or 0
SearchRuc(m) == MinOf({i \in DOMAIN m : IsNum(m[i]) /\ RucShaped(m[i].s)})

\* re.search(r'\b(\d{8})\b', text)
SearchDni(m) == MinOf({i \in DOMAIN m : IsNum(m[i]) /\ Len(m[i].s) = 8})

\* EmissionAgent._extract_document_number
_extract_document_number(m) ==
    LET cleaned == JoinDigits(m) IN
    IF SearchRuc(cleaned) # 0 THEN [type |-> "6", number |-> cleaned[SearchRuc(cleaned)].s]
    ELSE IF SearchDni(cleaned) # 0 /\ IntOf(cleaned[SearchDni(cleaned)].s) >= 1000000
         THEN [type |-> "1", number |-> cleaned[SearchDni(cleaned)].s]
         ELSE NoId

\* EmissionAgent._extract_price: the first run of digits of the message,
\* formatted with two decimals; NoPrice (None) if there is none.
_extract_price(m) ==
    LET i == MinOf({k \in DOMAIN m : IsNum(m[k])})
    IN  IF i = 0 THEN NoPrice ELSE Fmt2(Dec(m[i].s, 0))

\* Words that end in one of the separators x, a, por, with what precedes it:
\* with \s* empty the pattern reads "2 boleta 15" as 2 x "bolet" at 15.
SepTail ==
    { <<"boleta", "bolet">>, <<"factura", "factur">>, <<"camisa", "camis">>,
      <<"para", "par">>, <<"nada", "nad">>, <<"olvida", "olvid">>, <<"cancela", "cancel">> }

\* The item pattern of _extract_from_conversation at token i:
\* (\d+)\s+([a-z]+)\s*(?:x|a|@|por)\s*(\d+)
ConversationItemAt(m, i) ==
    IF /\ i + 3 <= Len(m)
       /\ IsNum(m[i]) /\ IsWord(m[i + 1]) /\ m[i + 2].s \in {"x", "a", "@", "por"}
       /\ IsNum(m[i + 3])
    THEN [end |-> i + 3,
          item |-> InvoiceItem(m[i].s, m[i + 1].s, Fmt2(Dec(m[i + 3].s, 0)))]
    ELSE IF /\ i + 2 <= Len(m)
            /\ IsNum(m[i]) /\ IsWord(m[i + 1]) /\ IsNum(m[i + 2])
            /\ \E p \in SepTail : p[1] = m[i + 1].s
    THEN [end |-> i + 2,
          item |-> InvoiceItem(m[i].s,
                               (CHOOSE p \in SepTail : p[1] = m[i + 1].s)[2],
                               Fmt2(Dec(m[i + 2].s, 0)))]
    ELSE NoMatch

RECURSIVE ConversationItems(_, _)
ConversationItems(m, i) ==
    IF i > Len(m) THEN <<>>
    ELSE IF ConversationItemAt(m, i).end # 0
         THEN <<ConversationItemAt(m, i).item>>
              \o ConversationItems(m, ConversationItemAt(m, i).end + 1)
         ELSE ConversationItems(m, i + 1)

\* One round of the loop of _extract_from_conversation: the slots still
\* empty are filled from the text of one message.
FromMessage(e, text) ==
    LET e1 == IF e.document_type = None
              THEN [e EXCEPT !.document_type =
                        IF HasSub(text, "factura") THEN "01"
                        ELSE IF HasSub(text, "boleta") THEN "03" ELSE None]
              ELSE e
        e2 == IF e1.id_number = None /\ SearchRuc(text) # 0
              THEN [e1 EXCEPT !.id_type = "6", !.id_number = text[SearchRuc(text)].s]
              ELSE e1
        e3 == IF /\ e2.id_number = None /\ SearchDni(text) # 0
                 /\ IntOf(text[SearchDni(text)].s) >= 1000000
              THEN [e2 EXCEPT !.id_type = "1", !.id_number = text[SearchDni(text)].s]
              ELSE e2
    IN  IF e3.items = <<>>
        THEN [e3 EXCEPT !.items = ConversationItems(text, 1)]
        ELSE e3

RECURSIVE FromMessages(_, _)
FromMessages(e, msgs) ==
    IF msgs = <<>> THEN e
    ELSE FromMessages(FromMessage(e, Text(Head(msgs))), Tail(msgs))

\* EmissionAgent._extract_from_conversation
_extract_from_conversation(s) ==
    LET e == FromMessages(s.emission_data, Last(s.messages, 10))
    IN  [s EXCEPT !.emission_data =
            IF e.id_type = "1" /\ e.document_type = None
            THEN [e EXCEPT !.document_type = "03"] ELSE e]

\* _generate_summary without line 470: the review is rendered and
\* awaiting_confirmation is left as it was.
_generate_summary_unflagged(s) ==
    LET e == s.emission_data IN
    Ret(s,
        Reply("review",
              [tipo |-> IF e.document_type = "01" THEN "factura" ELSE "boleta",
               id_tipo |-> IF e.id_type = "1" THEN "dni" ELSE "ruc",
               id_number |-> e.id_number,
               client_name |-> e.client_name,
               currency |-> e.currency,
               items |-> e.items]),
        <<>>)

\* EmissionAgent._generate_summary
_generate_summary(s) ==
    LET e == s.emission_data IN
    Ret([s EXCEPT !.awaiting_confirmation = TRUE],
        Reply("review",
              [tipo |-> IF e.document_type = "01" THEN "factura" ELSE "boleta",
               id_tipo |-> IF e.id_type = "1" THEN "dni" ELSE "ruc",
               id_number |-> e.id_number,
               client_name |-> e.client_name,
               currency |-> e.currency,
               items |-> e.items]),
        <<>>)

\* EmissionAgent._validate_and_continue
_validate_and_continue(s, env) ==
    LET e == s.emission_data
        answer == check_client(e.id_number, env)
        call == <<CheckCall(e.id_number, env)>>
    IN  IF e.id_number = None THEN Ret(s, Reply("need_id", NoData), <<>>)
        ELSE IF answer.valid
        THEN LET s1 == [s EXCEPT !.emission_data.client_validated = TRUE,
                                 !.emission_data.client_name = answer.result]
             IN  IF e.items # <<>>
                 THEN Ret(_generate_summary(s1).s, _generate_summary(s1).r, call)
                 ELSE Ret(s1,
                          Reply("client_found",
                                [id_tipo |-> IF e.id_type = "1" THEN "dni" ELSE "ruc",
                                 id_number |-> e.id_number, client_name |-> answer.result]),
                          call)
        ELSE Ret([s EXCEPT !.awaiting_client_reconfirmation = TRUE],
                 Reply("client_not_found", [id_number |-> e.id_number, items |-> e.items]),
                 call)

\* _handle_client_reconfirmation that starts over with the corrected ID: the
\* captured items are dropped before the new check.
_handle_client_reconfirmation_drops_items(m, s, env) ==
    LET new_id == _extract_document_number(m) IN
    IF _is_cancellation(m)
    THEN Ret(reset_emission(s), Reply("cancelled_op", NoData), <<>>)
    ELSE IF new_id # NoId
    THEN _validate_and_continue(
            [s EXCEPT !.emission_data.id_type = new_id.type,
                      !.emission_data.id_number = new_id.number,
                      !.emission_data.items = <<>>,
                      !.emission_data.client_validated = FALSE,
                      !.emission_data.client_name = None,
                      !.awaiting_client_reconfirmation = FALSE],
            env)
    ELSE Ret(s, Reply("no_valid_document", NoData), <<>>)

\* _handle_client_reconfirmation without line 229: the flag is not cleared
\* before the new ID is checked.
_handle_client_reconfirmation_keeps_flag(m, s, env) ==
    LET new_id == _extract_document_number(m) IN
    IF _is_cancellation(m)
    THEN Ret(reset_emission(s), Reply("cancelled_op", NoData), <<>>)
    ELSE IF new_id # NoId
    THEN _validate_and_continue(
            [s EXCEPT !.emission_data.id_type = new_id.type,
                      !.emission_data.id_number = new_id.number,
                      !.emission_data.client_validated = FALSE,
                      !.emission_data.client_name = None],
            env)
    ELSE Ret(s, Reply("no_valid_document", NoData), <<>>)

\* EmissionAgent._handle_client_reconfirmation
_handle_client_reconfirmation(m, s, env) ==
    LET new_id == _extract_document_number(m) IN
    IF _is_cancellation(m)
    THEN Ret(reset_emission(s), Reply("cancelled_op", NoData), <<>>)
    ELSE IF new_id # NoId
    THEN _validate_and_continue(
            [s EXCEPT !.emission_data.id_type = new_id.type,
                      !.emission_data.id_number = new_id.number,
                      !.emission_data.client_validated = FALSE,
                      !.emission_data.client_name = None,
                      !.awaiting_client_reconfirmation = FALSE],
            env)
    ELSE Ret(s, Reply("no_valid_document", NoData), <<>>)

\* EmissionAgent._is_initial_request
_is_initial_request(m, extracted, e) ==
    /\ m # <<>>
    /\ \/ m[1].s \in {"factura", "boleta"}
       \/ <<"factura", m[1].s>> \in StartsWithTab
       \/ <<"boleta", m[1].s>> \in StartsWithTab
       \/ (Len(m) >= 2 /\ m[1].s = "emitir" /\ m[2].k # "p"
           /\ (m[2].s \in {"factura", "boleta"}
               \/ <<"factura", m[2].s>> \in StartsWithTab
               \/ <<"boleta", m[2].s>> \in StartsWithTab))
    /\ extracted.id_number = None /\ extracted.items = <<>>
    /\ e.id_number = None /\ e.items = <<>>

\* EmissionAgent._request_data
_request_data(missing, s) ==
    LET e == s.emission_data
        infer == "tipo_documento" \in Range(missing) /\ e.id_type = "1"
        s1 == IF infer THEN [s EXCEPT !.emission_data.document_type = "03"] ELSE s
        left == IF infer THEN SelectSeq(missing, LAMBDA f : f # "tipo_documento") ELSE missing
    IN  IF "tipo_documento" \in Range(missing) /\ e.id_type = "6"
        THEN Ret(s, Reply("ask_document_type_ruc", [id_number |-> e.id_number]), <<>>)
        ELSE IF "tipo_documento" \in Range(missing) /\ e.id_type # "1"
        THEN Ret(s, Reply("ask_document_type", NoData), <<>>)
        ELSE IF left = <<>> THEN _generate_summary(s1)
        ELSE IF "identificacion_cliente" \in Range(left)
        THEN Ret(s1, Reply("ask_id_kind", NoData), <<>>)
        ELSE IF "productos" \in Range(left)
        THEN IF e.client_validated /\ e.client_name # None
             THEN Ret(s1, Reply("ask_products_for",
                                [id_number |-> e.id_number, client_name |-> e.client_name]),
                      <<>>)
             ELSE Ret(s1, Reply("ask_products", NoData), <<>>)
        ELSE Ret(s1, Reply("falta", NoData), <<>>)

\* record_emission without line 95, the append.
record_emission_dropped(s, e) == s

\* SessionManager.record_emission
record_emission(s, e) ==
    [s EXCEPT !.session_emissions =
        Append(@, [document_type |-> IF e.document_type = "01" THEN "Factura" ELSE "Boleta",
                   client_id |-> e.id_number,
                   currency |-> e.currency,
                   items_count |-> Len(e.items)])]

\* execute_emission without lines 383-396: the call is made with the
\* emission as it is.
execute_emission_unchecked(s, env) ==
    LET e == s.emission_data IN
    IF env.emit = "TRUE"
    THEN Ret(reset_emission(record_emission(s, e)),
             Reply("emitted",
                   [tipo |-> IF e.document_type = "01" THEN "factura" ELSE "boleta",
                    client_name |-> e.client_name]),
             <<EmitCall(e, env)>>)
    ELSE Ret(s, Reply("emit_error", NoData), <<EmitCall(e, env)>>)

\* EmissionAgent.execute_emission from "Verificar que tenemos todo" on
\* (lines 387-451), on the session s1 that lines 383-385 leave.
EmitChecked(s1, env) ==
    LET e == s1.emission_data
        missing == get_missing_fields(e)
        call == <<EmitCall(e, env)>>
    IN  IF missing # <<>> THEN _request_data(missing, s1)
        ELSE IF ~e.client_validated THEN _validate_and_continue(s1, env)
        ELSE IF env.emit = "TRUE"
        THEN Ret(reset_emission(record_emission(s1, e)),
                 Reply("emitted",
                       [tipo |-> IF e.document_type = "01" THEN "factura" ELSE "boleta",
                        client_name |-> e.client_name]),
                 call)
        ELSE IF env.emit = "FALSE" THEN Ret(s1, Reply("emit_error", NoData), call)
        ELSE Ret(s1, Reply("emit_exception", NoData), call)

\* EmissionAgent.execute_emission
execute_emission(s, env) ==
    EmitChecked(IF _has_complete_data(s.emission_data) THEN s
                ELSE _extract_from_conversation(s),
                env)

\* The pending items turned into items at the price read from the message.
Priced(pending, precio) ==
    [i \in DOMAIN pending |->
        InvoiceItem(pending[i].cantidad, pending[i].descripcion, precio)]

\* process_message, lines 101-135: what is missing decides the reply. s2 is
\* the session after update_session, s3 the session after the pending items
\* were priced.
ProcessMissing(m, extracted, s2, s3, env) ==
    LET e == s3.emission_data
        missing == get_missing_fields(e)
    IN  IF extracted.items_sin_precio # <<>> /\ extracted.items = <<>>
        THEN Ret([s2 EXCEPT !.pending_items = extracted.items_sin_precio],
                 Reply("ask_price", extracted.items_sin_precio[1]), <<>>)
        ELSE IF _is_initial_request(m, extracted, e)
        THEN Ret(s3, Reply("initial_instructions", [document_type |-> e.document_type]), <<>>)
        ELSE IF /\ e.id_number # None /\ ~e.client_validated
                /\ (e.items # <<>> \/ missing = <<>> \/ missing = <<"productos">>)
        THEN _validate_and_continue(s3, env)
        ELSE IF missing = <<>>
        THEN IF e.client_validated THEN _generate_summary(s3)
             ELSE _validate_and_continue(s3, env)
        ELSE IF /\ extracted.id_number = None /\ extracted.items = <<>>
                /\ extracted.items_sin_precio = <<>>
                /\ "identificacion_cliente" \in Range(missing)
        THEN Ret(s3, Reply("ask_id", NoData), <<>>)
        ELSE IF /\ extracted.id_number = None /\ extracted.items = <<>>
                /\ extracted.items_sin_precio = <<>>
                /\ "productos" \in Range(missing)
        THEN Ret(s3, Reply("ask_products", NoData), <<>>)
        ELSE _request_data(missing, s3)

\* process_message, lines 87-99: a price in the message prices the pending
\* items.
PricePending(s2, precio) ==
    IF s2.pending_items # <<>> /\ precio # NoPrice
    THEN [s2 EXCEPT !.emission_data.items = @ \o Priced(s2.pending_items, precio),
                    !.pending_items = <<>>]
    ELSE s2

\* process_message, lines 87-135, on the session s2 that update_session left.
ProcessUpdated(m, extracted, s2, env) ==
    ProcessMissing(m, extracted, s2, PricePending(s2, _extract_price(m)), env)

\* process_message, lines 71-135, with what extract_all read in the message.
ProcessExtractedAs(m, extracted, s, env) ==
    ProcessUpdated(m, extracted, update_session(s, extracted), env)

\* EmissionAgent.process_message from "Extraer datos del mensaje actual" on
ProcessExtracted(m, s, env) == ProcessExtractedAs(m, extract_all(m), s, env)

\* The message is one of the bare confirmations of process_message, line 52.
IsBareConfirmation(m) ==
    Strs(m) \in {<<"si">>, <<"ok">>, <<"dale">>, <<"confirmo">>, <<"claro">>}

\* process_message, lines 35-135; s1 is the session after the extraction
\* from the conversation that a bare confirmation triggers.
ProcessFrom(m, s, s1, env) ==
    IF _is_cancellation(m)
    THEN Ret(reset_emission(s), Reply("cancelled_op", NoData), <<>>)
    ELSE IF s.awaiting_client_reconfirmation
    THEN _handle_client_reconfirmation(m, s, env)
    ELSE IF IsBareConfirmation(m) /\ get_missing_fields(s1.emission_data) = <<>>
    THEN IF ~s1.emission_data.client_validated
         THEN _validate_and_continue(s1, env)
         ELSE _generate_summary(s1)
    ELSE IF Strs(m) \in {<<"ruc">>, <<"con", "ruc">>, <<"es", "ruc">>}
    THEN Ret(s1, Reply("ask_ruc", NoData), <<>>)
    ELSE IF Strs(m) \in {<<"dni">>, <<"con", "dni">>, <<"es", "dni">>}
    THEN Ret(s1, Reply("ask_dni", NoData), <<>>)
    ELSE ProcessExtracted(m, s1, env)

\* EmissionAgent.process_message
process_message(m, s, env) ==
    ProcessFrom(m, s,
                IF IsBareConfirmation(m) /\ ~_has_complete_data(s.emission_data)
                THEN _extract_from_conversation(s) ELSE s,
                env)

(***************************************************************************)
(* agents/intent_classifier.py: classify                                   *)
(***************************************************************************)
\* Some token of m is one of the words.
AnyWord(m, words) == \E i \in DOMAIN m : m[i].s \in words

\* \b(first)\s+(second)\b
Pair(m, first, second) ==
    \E i \in 1..(Len(m) - 1) :
        m[i].s \in first /\ m[i + 1].s \in second /\ m[i + 1].k # "p"

\* \b(first)\s+(middle\s+)?(second)\b
PairOpt(m, first, middle, second) ==
    \/ Pair(m, first, second)
    \/ \E i \in 1..(Len(m) - 2) :
          /\ m[i].s \in first /\ m[i + 1].s \in middle /\ m[i + 2].s \in second
          /\ m[i + 1].k # "p" /\ m[i + 2].k # "p"

\* '?' in text
HasQuestionMark(m) == \E i \in DOMAIN m : m[i].s = "?"

\* re.match(r'^\d$', text)
IsBareNumber_one_digit(m) == Len(m) = 1 /\ IsNum(m[1]) /\ Len(m[1].s) <= 1

\* re.match(r'^\d{1,2}$', text)
IsBareNumber(m) == Len(m) = 1 /\ IsNum(m[1]) /\ Len(m[1].s) <= 2

\* re.search(r'\b\d{8}\b', text) or re.search(r'\b[12]0\d{9}\b', text)
HasDocumentNumber(m) == SearchDni(m) # 0 \/ SearchRuc(m) # 0

\* re.search(r'\d+\s+\w+\s+(a|@|por)\s+\d+', text)
HasPricedItem(m) ==
    \E i \in 1..(Len(m) - 3) :
        /\ IsNum(m[i]) /\ m[i + 1].k # "p" /\ m[i + 2].s \in {"a", "@", "por"}
        /\ IsNum(m[i + 3])

emission_re(m) ==
    \/ PairOpt(m, {"emitir", "generar", "crear", "hacer", "necesito", "quiero"},
               {"un", "una"}, {"factura", "boleta"})
    \/ Strs(StripTrail(m)) \in {<<"factura">>, <<"boleta">>}
    \/ Pair(m, {"factura", "boleta"}, {"para", "con", "de"})
    \/ PairOpt(m, {"emite"}, {"un", "una"}, {"factura", "boleta"})

products_re(m) == AnyWord(m, {"producto", "productos", "catalogo", "inventario"})

clients_re(m) == AnyWord(m, {"cliente", "clientes"})

history_re(m) ==
    \/ AnyWord(m, {"historial", "historico", "ventas", "emisiones"})
    \/ \E i \in 1..(Len(m) - 1) : m[i].s \in {"ultima", "ultimo"} /\ m[i + 1].k # "p"
    \/ \E i \in 1..(Len(m) - 2) :
          /\ m[i].s \in {"detalle", "detalles", "info"}
          /\ \/ /\ m[i + 1].s \in {"la", "el"}
                /\ (IsNum(m[i + 2]) \/ m[i + 2].s \in {"ultima", "ultimo"})
             \/ /\ i + 3 <= Len(m) /\ m[i + 1].s = "de" /\ m[i + 2].s \in {"la", "el"}
                /\ (IsNum(m[i + 3]) \/ m[i + 3].s \in {"ultima", "ultimo"})
    \/ PairOpt(m, {"la", "el", "mi", "factura", "boleta"}, {"de"}, {"hoy"})
    \/ Pair(m, {"emitida", "generada"}, {"hoy"})

general_re(m) ==
    \/ Pair(m, {"que"}, {"es"})
    \/ Pair(m, {"como"}, {"funciona", "emitir", "hacer"})
    \/ AnyWord(m, {"diferencia", "diferencias", "ayuda", "duda", "dudas", "help", "igv",
                   "explicame"})

greeting_re(m) ==
    Strs(StripTrail(m)) \in {<<"hola">>, <<"hey">>, <<"hi">>, <<"buenos", "dias">>,
                             <<"buenas", "tardes">>, <<"buenas", "noches">>, <<"buenas">>}

product_search_re(m) ==
    AnyWord(m, {"busca", "buscar", "encuentra", "encontrar", "filtrar", "hay", "tiene",
                "tengo", "existe"})

\* The integer part of an amount, modulo 100.
Mod100(s) ==
    IF s = "20161541991" THEN 91
    ELSE IF s = "10456789012" THEN 12
    ELSE IF s = "20999999999" THEN 99
    ELSE IntOf(s) % 100

\* any(f"{i}." in text for i in range(1, 16)) for a text whose only dots
\* follow the integer parts v of its amounts (v is v mod 100).
IndexDot(v) == v % 10 # 0 \/ v = 10

Subtotal100(it) == (IntOf(it.cantidad) * Mod100(it.precio.s)) % 100

RECURSIVE Total100(_)
Total100(items) ==
    IF items = <<>> THEN 0 ELSE (Subtotal100(Head(items)) + Total100(Tail(items))) % 100

\* The context one assistant message gives in _get_conversation_context,
\* None if it matches no rule.
ContextOf(r) ==
    LET d == r.data IN
    CASE r.kind = "product_list" -> "products"
      [] r.kind = "client_not_found" -> IF d.items # <<>> THEN "products" ELSE None
      [] r.kind = "review" ->
            IF \/ \E i \in DOMAIN d.items :
                     IndexDot(Mod100(d.items[i].precio.s)) \/ IndexDot(Subtotal100(d.items[i]))
               \/ IndexDot(Total100(d.items))
            THEN "products" ELSE None
      [] r.kind = "number_unclear" ->
            IF IndexDot(IntOf(d.number) % 100) THEN "products" ELSE None
      [] r.kind = "product_detail" ->
            IF IndexDot(Mod100(d.provun)) THEN "products" ELSE "product_detail"
      [] r.kind = "history_list" -> IF d.today + d.history > 0 THEN "history" ELSE None
      [] r.kind = "search_results" -> "search_results"
      [] OTHER -> None

RECURSIVE FirstContext(_)
\* for msg in reversed(msgs): the first assistant message that gives one
FirstContext(msgs) ==
    IF msgs = <<>> THEN None
    ELSE LET msg == msgs[Len(msgs)] IN
         IF msg.role = "assistant" /\ ContextOf(msg.content) # None
         THEN ContextOf(msg.content)
         ELSE FirstContext(SubSeq(msgs, 1, Len(msgs) - 1))

\* IntentClassifier._get_conversation_context
_get_conversation_context(s) ==
    IF s.conversation_context # None THEN s.conversation_context
    ELSE FirstContext(Last(s.messages, 4))

\* IntentClassifier._has_active_emission, MainOrchestrator._has_active_emission
_has_active_emission(s) ==
    LET e == s.emission_data
    IN  e.document_type # None \/ e.id_number # None \/ e.items # <<>>

\* IntentClassifier.classify
classify(m, s) ==
    LET last_context == _get_conversation_context(s) IN
    IF last_context = "product_detail" /\ is_confirmation(m) THEN "QUERY_PRODUCTS"
    ELSE IF IsBareNumber(m) /\ last_context \in {"products", "search_results"}
    THEN "QUERY_PRODUCTS"
    ELSE IF IsBareNumber(m) /\ last_context \in {"history", "today_emissions"}
    THEN "QUERY_HISTORY"
    ELSE IF /\ last_context = "products"
            /\ (product_search_re(m) \/ TextLen(m) > 2)
            /\ ~emission_re(m) /\ ~history_re(m)
    THEN "QUERY_PRODUCTS"
    ELSE IF s.awaiting_confirmation /\ is_confirmation(m) THEN "CONFIRMATION"
    ELSE IF s.awaiting_confirmation /\ is_cancellation(m) THEN "CANCEL"
    ELSE IF _has_active_emission(s) /\ is_cancellation(m) /\ TextLen(m) < 15 THEN "CANCEL"
    ELSE IF _has_active_emission(s) /\ (HasDocumentNumber(m) \/ HasPricedItem(m))
    THEN "EMIT_INVOICE"
    ELSE IF history_re(m) THEN "QUERY_HISTORY"
    ELSE IF HasSub(m, "detalle") /\ (\E i \in DOMAIN m : IsNum(m[i])) THEN "QUERY_HISTORY"
    ELSE IF (general_re(m) \/ (HasQuestionMark(m) /\ TextLen(m) > 10)) /\ ~emission_re(m)
    THEN "GENERAL_QUESTION"
    ELSE IF TextLen(m) < 25 /\ greeting_re(m) THEN "GREETING"
    ELSE IF products_re(m) THEN "QUERY_PRODUCTS"
    ELSE IF product_search_re(m) /\ HasSub(m, "producto") THEN "QUERY_PRODUCTS"
    ELSE IF emission_re(m) THEN "EMIT_INVOICE"
    ELSE IF /\ HasDocumentNumber(m)
            /\ (_has_active_emission(s) \/ HasSub(m, "factura") \/ HasSub(m, "boleta"))
    THEN "EMIT_INVOICE"
    ELSE IF clients_re(m) THEN "QUERY_CLIENTS"
    ELSE IF last_context = "products" /\ ~emission_re(m) THEN "QUERY_PRODUCTS"
    ELSE IF last_context = "history" /\ ~emission_re(m) THEN "QUERY_HISTORY"
    ELSE IF HasQuestionMark(m) THEN "GENERAL_QUESTION"
    ELSE "UNKNOWN"

(***************************************************************************)
(* agents/conversation_agent.py.  The account holds the products of        *)
(* Catalogue and the past emissions of ServerHistory.                      *)
(***************************************************************************)
Catalogue ==
    << [pronom |-> "laptop hp", provun |-> "2500"], [pronom |-> "mouse", provun |-> "30"] >>

ServerHistory == << [tdocod |-> "01", tdicod |-> "6", ccandi |-> "20161541991"] >>

\* term in pronom
NameHas(term, pronom) ==
    term = pronom \/ <<term, pronom>> \in {<<"laptop", "laptop hp">>, <<"hp", "laptop hp">>}

affirmatives ==
    {"si", "yes", "ok", "okey", "dale", "claro", "adelante", "confirmo", "acepto", "listo"}

\* ConversationAgent._is_affirmative: the message starts with an affirmative
_is_affirmative(m) ==
    /\ m # <<>>
    /\ \/ m[1].s \in affirmatives
       \/ \E a \in affirmatives : <<a, m[1].s>> \in StartsWithTab
       \/ (Len(m) >= 2 /\ m[1].s = "por" /\ m[2].k # "p"
           /\ (m[2].s = "supuesto" \/ <<"supuesto", m[2].s>> \in StartsWithTab))

\* ConversationAgent._is_command
_is_command(m) ==
    \E c \in {"historial", "productos", "factura", "boleta", "emitir", "cancelar", "ayuda",
              "menu"} : HasSub(m, c)

search_keywords ==
    <<{"busca", "buscar"}, {"encuentra", "encontrar"}, {"filtra", "filtrar"}, {"hay"},
      {"tiene", "tienen", "tienes"}, {"tengo"}, {"existe", "existen"}>>

\* ConversationAgent._is_product_search
_is_product_search(m) ==
    \E kw \in {"busca", "buscar", "encuentra", "encontrar", "filtrar", "hay", "tiene",
               "tengo", "existe"} : HasSub(m, kw)

\* The first place where pattern k of _extract_search_term matches: a keyword
\* followed by a blank and some text.
SearchAt(m, k) ==
    MinOf({i \in 1..(Len(m) - 1) : m[i].s \in search_keywords[k] /\ m[i + 1].k # "p"})

RECURSIVE TermText(_)
TermText(ts) ==
    IF ts = <<>> THEN ""
    ELSE IF Len(ts) = 1 THEN ts[1].s
    ELSE ts[1].s \o (IF ts[2].k = "p" THEN "" ELSE " ") \o TermText(Tail(ts))

\* ConversationAgent._extract_search_term
_extract_search_term(m) ==
    LET ks == {k \in DOMAIN search_keywords : SearchAt(m, k) # 0} IN
    IF ks = {} THEN None
    ELSE LET rest == SubSeq(m, SearchAt(m, MinOf(ks)) + 1, Len(m))
             term == IF /\ Len(rest) >= 2 /\ rest[2].k # "p"
                        /\ rest[1].s \in {"un", "una", "el", "la", "los", "las", "mis", "en",
                                          "producto", "productos"}
                     THEN Tail(rest) ELSE rest
         IN  IF TextLen(term) > 1 THEN TermText(term) ELSE None

\* ConversationAgent._search_products
_search_products(term, s) ==
    LET products == s.context.products
        matches == SelectSeq(products, LAMBDA p : NameHas(term, p.pronom))
    IN  IF products = <<>> THEN Ret(s, Reply("no_products_registered", NoData), <<>>)
        ELSE IF matches = <<>>
        THEN Ret(set_context(s, "products"), Reply("search_none", [term |-> term]), <<>>)
        ELSE Ret([set_context(s, "search_results") EXCEPT !.search_results = matches],
                 Reply("search_results", [term |-> term, count |-> Len(matches)]), <<>>)

\* _show_product_detail without line 159: the detail is shown and the
\* product is not stored.
_show_product_detail_unselected(product, index, s) ==
    Ret(set_context(s, "product_detail"),
        Reply("product_detail",
              [index |-> index, pronom |-> product.pronom, provun |-> product.provun]),
        <<>>)

\* ConversationAgent._show_product_detail
_show_product_detail(product, index, s) ==
    Ret(set_context([s EXCEPT !.selected_product = product], "product_detail"),
        Reply("product_detail",
              [index |-> index, pronom |-> product.pronom, provun |-> product.provun]),
        <<>>)

\* ConversationAgent._start_emission_with_product
_start_emission_with_product(s) ==
    LET product == s.selected_product IN
    IF product = NoProduct THEN Ret(s, Reply("no_product_selected", NoData), <<>>)
    ELSE Ret([set_context(s, "emission") EXCEPT
                 !.pending_items = << [descripcion |-> product.pronom,
                                       precio |-> Dec(product.provun, 1),
                                       cantidad |-> "1"] >>],
             Reply("product_selected", [pronom |-> product.pronom, provun |-> product.provun]),
             <<>>)

\* ConversationAgent._format_today_emission_detail
_format_today_emission_detail(s, record) ==
    Ret(s,
        Reply("today_detail",
              [tipo |-> IF record.document_type = "01" THEN "factura" ELSE "boleta",
               client_id |-> record.client_id]),
        <<>>)

\* ConversationAgent._get_history_detail; the index is the digits read.
_get_history_detail(index, s) ==
    LET history == s.context.history IN
    IF history = <<>> THEN Ret(s, Reply("no_history", NoData), <<>>)
    ELSE IF IntOf(index) < 1 \/ IntOf(index) > Len(history)
    THEN Ret(s, Reply("emission_not_found", [number |-> index]), <<>>)
    ELSE LET h == history[IntOf(index)] IN
         Ret(set_context(s, "history"),
             Reply("history_detail",
                   [index |-> index,
                    tipo |-> IF h.tdocod = "01" THEN "factura" ELSE "boleta",
                    tipo_doc |-> IF h.tdicod = "6" THEN "ruc" ELSE "dni",
                    doc_cliente |-> h.ccandi]),
             <<>>)

\* rows[number - 1] of Python for 0 <= number <= len(rows): the index -1 of
\* the number 0 is the last row.
RowAt(rows, n) == IF n = 0 THEN rows[Len(rows)] ELSE rows[n]

\* ConversationAgent._handle_number_selection
_handle_number_selection(number, s) ==
    LET ctx == s.conversation_context
        n == IntOf(number)
    IN  IF ctx = "search_results" /\ s.search_results # <<>>
        THEN IF n <= Len(s.search_results)
             THEN _show_product_detail(RowAt(s.search_results, n), number, s)
             ELSE Ret(s, Reply("result_not_found", [number |-> number]), <<>>)
        ELSE IF ctx = "history"
        THEN IF s.context.history # <<>> /\ n <= Len(s.context.history)
             THEN _get_history_detail(number, set_context(s, "history"))
             ELSE Ret(s, Reply("emission_not_found", [number |-> number]), <<>>)
        ELSE IF ctx = "products"
        THEN IF s.context.products # <<>> /\ n <= Len(s.context.products)
             THEN _show_product_detail(RowAt(s.context.products, n), number, s)
             ELSE Ret(s, Reply("product_not_found", [number |-> number]), <<>>)
        ELSE IF /\ ctx = "today_emissions"
                /\ s.session_emissions # <<>> /\ n <= Len(s.session_emissions)
        THEN _format_today_emission_detail(s, RowAt(s.session_emissions, n))
        ELSE Ret(s, Reply("number_unclear", [number |-> number]), <<>>)

\* (?:la|el)\s+(\d+)\b and (?:numero|num|#)\s*(\d+): the digits, None if none
_extract_detail_number(m) ==
    LET i == MinOf({k \in 1..(Len(m) - 1) :
                      m[k].s \in {"la", "el", "numero", "num", "#"} /\ IsNum(m[k + 1])})
    IN  IF i # 0 /\ IntOf(m[i + 1].s) # 0 THEN m[i + 1].s ELSE None

\* ConversationAgent._list_products
_list_products(s, m) ==
    IF s.context.products = <<>> THEN Ret(s, Reply("no_products", NoData), <<>>)
    ELSE IF _extract_search_term(m) # None THEN _search_products(_extract_search_term(m), s)
    ELSE Ret(set_context(s, "products"),
             Reply("product_list", [count |-> Len(s.context.products)]), <<>>)

\* ConversationAgent._list_history
_list_history(s) ==
    Ret(set_context(s, "history"),
        Reply("history_list",
              [today |-> Len(s.session_emissions),
               history |-> Len(s.context.history),
               tipos |-> [i \in DOMAIN s.context.history |->
                            W(IF s.context.history[i].tdocod = "01" THEN "factura"
                              ELSE "boleta")]]),
        <<>>)

\* ConversationAgent._query_llm: the text of the language model, or the
\* fallback; neither is read back by any rule.
_query_llm(s) == Ret(s, Reply("llm", NoData), <<>>)

\* ConversationAgent._handle_general_question
_handle_general_question(m, s) ==
    IF HasSub(m, "diferencia") THEN Ret(s, Reply("difference", NoData), <<>>)
    ELSE IF HasSub(m, "igv") THEN Ret(s, Reply("igv", NoData), <<>>)
    ELSE IF HasPhrase(m, "como", "emitir") THEN Ret(s, Reply("how_to_emit", NoData), <<>>)
    ELSE _query_llm(s)

\* ConversationAgent.handle_query
handle_query(m, intent, s) ==
    LET ctx == s.conversation_context IN
    IF ctx = "product_detail" /\ s.selected_product # NoProduct /\ _is_affirmative(m)
    THEN _start_emission_with_product(s)
    ELSE IF IsBareNumber(m) THEN _handle_number_selection(m[1].s, s)
    ELSE IF _is_product_search(m) /\ _extract_search_term(m) # None
    THEN _search_products(_extract_search_term(m), s)
    ELSE IF ctx = "search_results" /\ TextLen(m) > 2 /\ ~_is_command(m)
    THEN _search_products(TermText(m), s)
    ELSE IF _extract_detail_number(m) # None
    THEN _get_history_detail(_extract_detail_number(m), s)
    ELSE IF AnyWord(m, {"ultima", "ultimo"}) \/ HasPhrase(m, "de", "hoy")
            \/ Pair(m, {"emitida", "generada"}, {"hoy"})
    THEN IF s.session_emissions # <<>>
         THEN _format_today_emission_detail(s, s.session_emissions[Len(s.session_emissions)])
         ELSE IF s.context.history # <<>> THEN _get_history_detail("1", s)
         ELSE Ret(s, Reply("no_emissions", NoData), <<>>)
    ELSE IF HasSub(m, "diferencia") /\ (HasSub(m, "factura") \/ HasSub(m, "boleta"))
    THEN Ret(s, Reply("difference", NoData), <<>>)
    ELSE IF intent = "QUERY_PRODUCTS" \/ HasSub(m, "producto") THEN _list_products(s, m)
    ELSE IF intent = "QUERY_HISTORY" THEN _list_history(s)
    ELSE IF intent = "GENERAL_QUESTION" THEN _handle_general_question(m, s)
    ELSE _query_llm(s)

\* ConversationAgent.handle_greeting
handle_greeting(s) ==
    Ret(clear_context(s),
        Reply("greeting",
              [today |-> Len(s.session_emissions), products |-> Len(s.context.products)]),
        <<>>)

(***************************************************************************)
(* services/session_manager.py                                             *)
(***************************************************************************)
\* authenticate_user without line 46: the terms count as accepted.
authenticate_user_accepts_terms(s) ==
    [s EXCEPT !.client_data = "client", !.authenticated = TRUE, !.terms_accepted = TRUE]

\* SessionManager.authenticate_user when identify_client answers
authenticate_user(s) ==
    [s EXCEPT !.client_data = "client", !.authenticated = TRUE, !.terms_accepted = FALSE]

Lists == {"answer", "error"}

\* The requests of load_user_context, lines 65 to 67.
ListCalls == <<[op |-> "get_products"], [op |-> "get_clients"], [op |-> "get_history"]>>

\* load_user_context when the failed requests leave the context as it was.
load_user_context_unstamped(s, lists) ==
    IF lists = "answer"
    THEN [s EXCEPT !.context =
            [loaded |-> TRUE, products |-> Catalogue, history |-> ServerHistory]]
    ELSE s

\* SessionManager.load_user_context on a context that is not loaded (the
\* two calls of the orchestrator, lines 64 and 105, pass no other one):
\* get_products and get_history answer with the account's lists, or with []
\* when the request fails; loaded_at is stamped in both cases.
load_user_context(s, lists) ==
    [s EXCEPT !.context =
        [loaded |-> TRUE,
         products |-> IF lists = "answer" THEN Catalogue ELSE <<>>,
         history |-> IF lists = "answer" THEN ServerHistory ELSE <<>>]]

(***************************************************************************)
(* agents/orchestrator.py                                                  *)
(***************************************************************************)
\* MainOrchestrator._message_has_emission_data
_message_has_emission_data(m) ==
    \/ \E w \in {"factura", "boleta", "emitir", "emite"} : HasSub(m, w)
    \/ HasDocumentNumber(m)
    \/ HasPricedItem(m)

\* MainOrchestrator._looks_like_emission
_looks_like_emission(m, s) ==
    /\ \E w \in {"confirmo", "si", "ok"} : HasSub(m, w)
    /\ \E i \in DOMAIN Last(s.messages, 3) :
          LET msg == Last(s.messages, 3)[i] IN
          /\ msg.role = "assistant"
          /\ \E w \in {"boleta", "factura", "emitir", "confirmas"} : HasSub(Text(msg), w)

\* MainOrchestrator._route
_route(m, intent, s, env) ==
    IF intent = "EMIT_INVOICE" THEN process_message(m, s, env)
    ELSE IF intent = "GREETING" THEN handle_greeting(s)
    ELSE IF intent = "CANCEL" THEN Ret(reset_emission(s), Reply("cancelled", NoData), <<>>)
    ELSE IF intent \in {"QUERY_PRODUCTS", "QUERY_CLIENTS", "QUERY_HISTORY", "GENERAL_QUESTION"}
    THEN handle_query(m, intent, s)
    ELSE IF _looks_like_emission(m, s) THEN process_message(m, s, env)
    ELSE Ret(s, Reply("menu", NoData), <<>>)

\* The handler's result with the reply appended to the history.
Answered(ret) == Ret(add_message(ret.s, "assistant", ret.r), ret.r, ret.c)

\* handle_message, step 3 and line 107: the context is loaded if it is not,
\* and the message is added to the history.
Received(m, s, lists) ==
    add_message(IF s.context.loaded THEN s ELSE load_user_context(s, lists), "user", m)

\* Steps 4 to 9 with line 122 dropped: an affirmative executes the emission
\* whether or not the review is awaiting its confirmation.
Steps4to9AnyAffirmative(m, s1, env) ==
    IF s1.awaiting_client_reconfirmation THEN Answered(process_message(m, s1, env))
    ELSE IF is_confirmation(m)
    THEN Answered(execute_emission([s1 EXCEPT !.awaiting_confirmation = FALSE], env))
    ELSE IF s1.awaiting_confirmation /\ is_cancellation(m)
    THEN Ret(reset_emission([s1 EXCEPT !.awaiting_confirmation = FALSE]),
             Reply("cancelled_short", NoData), <<>>)
    ELSE IF _has_active_emission(s1) THEN Answered(process_message(m, s1, env))
    ELSE IF _message_has_emission_data(m) THEN Answered(process_message(m, s1, env))
    ELSE Answered(_route(m, classify(m, s1), s1, env))

\* handle_message that executes the emission on any affirmative.
handle_message_any_affirmative(m, s, env, lists) ==
    Steps4to9AnyAffirmative(m, Received(m, s, lists), env)

\* MainOrchestrator.handle_message, steps 4 to 9, on the session s1 with
\* the message in its history.
Steps4to9(m, s1, env) ==
    IF s1.awaiting_client_reconfirmation THEN Answered(process_message(m, s1, env))
    ELSE IF s1.awaiting_confirmation /\ is_confirmation(m)
    THEN Answered(execute_emission([s1 EXCEPT !.awaiting_confirmation = FALSE], env))
    ELSE IF s1.awaiting_confirmation /\ is_cancellation(m)
    THEN Ret(reset_emission([s1 EXCEPT !.awaiting_confirmation = FALSE]),
             Reply("cancelled_short", NoData), <<>>)
    ELSE IF _has_active_emission(s1) THEN Answered(process_message(m, s1, env))
    ELSE IF _message_has_emission_data(m) THEN Answered(process_message(m, s1, env))
    ELSE Answered(_route(m, classify(m, s1), s1, env))

\* Step 3 in the calls of the turn: the requests of load_user_context come
\* first when the context of s is not loaded.
Requested(s, ret) == IF s.context.loaded THEN ret ELSE [ret EXCEPT !.c = ListCalls \o @]

\* MainOrchestrator.handle_message, steps 3 to 9: the session is
\* authenticated and the terms are accepted.
handle_message(m, s, env, lists) ==
    Requested(s, Steps4to9(m, Received(m, s, lists), env))

(***************************************************************************)
(* What the user writes.                                                   *)
(***************************************************************************)
U_si == <<W("si")>>
U_no == <<W("no")>>
U_cancelar == <<W("cancelar")>>
U_boleta == <<W("boleta")>>
U_factura == <<W("factura")>>
U_dni == <<W("dni"), N("12345678")>>
U_dni_unknown == <<N("11111111")>>
U_items == <<N("2"), W("cuadernos"), W("a"), N("15")>>
U_full ==
    <<W("boleta"), W("dni"), N("12345678"), P(","), N("2"), W("cuadernos"), W("a"), N("15")>>
U_factura_full ==
    <<W("factura"), W("dni"), N("12345678"), P(","), N("1"), W("libro"), W("a"), N("40")>>
U_ruc_items == <<N("20161541991"), P(","), N("2"), W("cuadernos"), W("a"), N("15")>>
U_productos == <<W("productos")>>
U_uno == <<N("1")>>

\* The words of an emission dictated in the chat.
Utterances ==
    {U_full, U_factura_full, U_ruc_items, U_si, U_no, U_cancelar, U_factura, U_dni,
     U_dni_unknown, U_items}

\* The words of an emission started from the catalogue.
CatalogueUtterances == {U_productos, U_uno, U_si, U_boleta, U_dni, U_cancelar}

MaxTurns == 3

MaxTurnsCatalogue == 5

\* The messages of the user in the history.
UserTurns(s) == Len(SelectSeq(s.messages, LAMBDA msg : msg.role = "user"))

(***************************************************************************)
(* The state machine: one session, one message at a time.  The message is  *)
(* handled as it arrives and the caller answers without a pause, except in *)
(* ExpiredSession.                                                         *)
(***************************************************************************)
Init ==
    /\ session = UserSession
    /\ message = <<>>
    /\ reply = Reply("none", NoData)
    /\ calls = <<>>
    /\ arrived = <<>>
    /\ idle = 0
    /\ other = UserSession

\* handle_message, step 1, on a session s that is not authenticated.
Step1(m, s, lists, identified) ==
    /\ message' = m
    /\ calls' = <<[op |-> "identify_client", identified |-> identified]>>
                 \o (IF identified THEN ListCalls ELSE <<>>)
    /\ IF identified
       THEN /\ session' = load_user_context(authenticate_user(s), lists)
            /\ reply' = Reply("welcome", [products |-> Len(session'.context.products)])
       ELSE /\ session' = s
            /\ reply' = Reply("not_registered", NoData)
    /\ UNCHANGED <<arrived, idle, other>>

\* A message to a session that is not authenticated.
Authenticate(U) ==
    /\ ~session.authenticated
    /\ \E m \in U, lists \in Lists, identified \in BOOLEAN :
          Step1(m, session, lists, identified)

\* A message more than SESSION_TTL_HOURS after the last one: get_session
\* replaces the session by a new one, which step 1 authenticates.
ExpiredSession(U) ==
    /\ session.authenticated
    /\ \E m \in U, lists \in Lists, identified \in BOOLEAN :
          Step1(m, UserSession, lists, identified)

\* Step 2 without the test of line 85: any message accepts the terms.
AcceptTermsOnAnyMessage(U) ==
    /\ session.authenticated /\ ~session.terms_accepted
    /\ \E m \in U :
          /\ message' = m
          /\ calls' = <<>>
          /\ session' = [session EXCEPT !.terms_accepted = TRUE]
          /\ reply' = Reply("terms_accepted", NoData)
    /\ UNCHANGED <<arrived, idle, other>>

\* handle_message, step 2: the terms are not accepted yet.
AcceptTerms(U) ==
    /\ session.authenticated /\ ~session.terms_accepted
    /\ \E m \in U :
          /\ message' = m
          /\ calls' = <<>>
          /\ IF is_confirmation(m)
             THEN /\ session' = [session EXCEPT !.terms_accepted = TRUE]
                  /\ reply' = Reply("terms_accepted", NoData)
             ELSE /\ session' = session
                  /\ reply' = IF is_cancellation(m) THEN Reply("terms_refused", NoData)
                              ELSE Reply("terms_needed", NoData)
    /\ UNCHANGED <<arrived, idle, other>>

\* handle_message, steps 3 to 9, for at most max messages of the history.
HandleMessage(U, max) ==
    /\ session.authenticated /\ session.terms_accepted
    /\ UserTurns(session) < max
    /\ \E m \in U, env \in Envs,
          lists \in (IF session.context.loaded THEN {"answer"} ELSE Lists) :
          \E ret \in {handle_message(m, session, env, lists)} :
              /\ message' = m
              /\ session' = ret.s
              /\ reply' = ret.r
              /\ calls' = ret.c
    /\ UNCHANGED <<arrived, idle, other>>

Next ==
    \/ Authenticate(Utterances)
    \/ ExpiredSession(Utterances)
    \/ AcceptTerms(Utterances)
    \/ HandleMessage(Utterances, MaxTurns)

Spec == Init /\ [][Next]_vars

NextCatalogue ==
    \/ Authenticate(CatalogueUtterances)
    \/ ExpiredSession(CatalogueUtterances)
    \/ AcceptTerms(CatalogueUtterances)
    \/ HandleMessage(CatalogueUtterances, MaxTurnsCatalogue)

SpecCatalogue == Init /\ [][NextCatalogue]_vars

\* The words of an emission whose items come without a price.
U_unpriced == <<N("2"), W("cuadernos")>>
U_price == <<N("15")>>

PendingUtterances == {U_si, U_boleta, U_unpriced, U_price}

MaxTurnsPending == 5

NextPending ==
    \/ Authenticate(PendingUtterances)
    \/ ExpiredSession(PendingUtterances)
    \/ AcceptTerms(PendingUtterances)
    \/ HandleMessage(PendingUtterances, MaxTurnsPending)

SpecPending == Init /\ [][NextPending]_vars

\* A long chat of short answers.
HistoryUtterances == {U_si, U_no}

MaxTurnsHistory == 11

NextHistory ==
    \/ Authenticate(HistoryUtterances)
    \/ ExpiredSession(HistoryUtterances)
    \/ AcceptTerms(HistoryUtterances)
    \/ HandleMessage(HistoryUtterances, MaxTurnsHistory)

SpecHistory == Init /\ [][NextHistory]_vars

\* The stock general questions.
U_diferencia ==
    <<P("?"), W("cual"), W("es"), W("la"), W("diferencia"), W("entre"), W("factura"),
      W("y"), W("boleta"), P("?")>>
U_igv == <<P("?"), W("que"), W("es"), W("el"), W("igv"), P("?")>>
U_como_emitir == <<P("?"), W("como"), W("emitir"), P("?")>>

QuestionUtterances == {U_si, U_diferencia, U_igv, U_como_emitir}

MaxTurnsQuestions == 3

NextQuestions ==
    \/ Authenticate(QuestionUtterances)
    \/ ExpiredSession(QuestionUtterances)
    \/ AcceptTerms(QuestionUtterances)
    \/ HandleMessage(QuestionUtterances, MaxTurnsQuestions)

SpecQuestions == Init /\ [][NextQuestions]_vars

\* An emission in dollars.
U_boleta_usd == <<W("boleta"), W("en"), W("dolares")>>

CurrencyUtterances == {U_si, U_boleta_usd, U_dni, U_items}

MaxTurnsCurrency == 3

NextCurrency ==
    \/ Authenticate(CurrencyUtterances)
    \/ ExpiredSession(CurrencyUtterances)
    \/ AcceptTerms(CurrencyUtterances)
    \/ HandleMessage(CurrencyUtterances, MaxTurnsCurrency)

SpecCurrency == Init /\ [][NextCurrency]_vars

\* The catalogue dialogue: the list, a search, and row numbers in and out of
\* the lists.
U_buscar == <<W("buscar"), W("laptop")>>
U_cero == <<N("0")>>
U_nueve == <<N("9")>>

SelectionUtterances == {U_productos, U_buscar, U_uno, U_cero, U_nueve, U_si}

MaxTurnsSelection == 4

NextSelection ==
    \/ Authenticate(SelectionUtterances)
    \/ ExpiredSession(SelectionUtterances)
    \/ AcceptTerms(SelectionUtterances)
    \/ HandleMessage(SelectionUtterances, MaxTurnsSelection)

SpecSelection == Init /\ [][NextSelection]_vars

\* Two items in one utterance, the first with "por", the second with "a".
U_two_items ==
    <<N("3"), W("lapices"), W("por"), N("2"), P(","),
      N("2"), W("cuadernos"), W("a"), N("15")>>

OrderUtterances == {U_si, U_boleta, U_dni, U_two_items}

MaxTurnsOrder == 3

NextOrder ==
    \/ Authenticate(OrderUtterances)
    \/ ExpiredSession(OrderUtterances)
    \/ AcceptTerms(OrderUtterances)
    \/ HandleMessage(OrderUtterances, MaxTurnsOrder)

SpecOrder == Init /\ [][NextOrder]_vars

\* The words of a user who issues a document and asks for it back.
U_ultima_emision == <<W("ultima"), W("emision")>>

DetailUtterances == {U_si, U_full, U_factura_full, U_ultima_emision}

MaxTurnsDetail == 3

NextDetail ==
    \/ Authenticate(DetailUtterances)
    \/ ExpiredSession(DetailUtterances)
    \/ AcceptTerms(DetailUtterances)
    \/ HandleMessage(DetailUtterances, MaxTurnsDetail)

SpecDetail == Init /\ [][NextDetail]_vars

(***************************************************************************)
(* The server: api/routes.py and services/session_manager.py.  A request   *)
(* is a pair [phone, m]; a phone is the number, as the sender writes it,   *)
(* and the suffix the gateway appends to it ("51999000001@c.us").          *)
(***************************************************************************)
\* A phone string is the sequence of its pieces: runs of digits, the marks
\* " ", "-" and "@", and the domain of the gateway.  The number 51999000001
\* is written as its two runs 51999 and 000001.
Caller == <<"51999", "000001">>
OtherCaller == <<"51999", "000002">>

Jid == <<"@", "c.us">>

Phone(number, suffix) == number \o suffix

\* phone.split("@")[0]
BeforeAt(phone) ==
    IF \E i \in DOMAIN phone : phone[i] = "@"
    THEN SubSeq(phone, 1, MinOf({i \in DOMAIN phone : phone[i] = "@"}) - 1)
    ELSE phone

\* str.strip(): without the blanks at both ends.
Strip(text) ==
    IF \A i \in DOMAIN text : text[i] = " " THEN <<>>
    ELSE SubSeq(text, MinOf({i \in DOMAIN text : text[i] # " "}),
                      -MinOf({-i : i \in {j \in DOMAIN text : text[j] # " "}}))

\* get_session with one key for every phone.
clean_phone_shared(phone) == Caller

\* get_session, line 21: phone.split("@")[0].strip()
clean_phone(phone) == Strip(BeforeAt(phone))

ServerPhones == {Phone(Caller, <<>>), Phone(Caller, Jid), Phone(OtherCaller, Jid)}

CallerPhones == {Phone(Caller, <<>>), Phone(Caller, Jid)}

\* The number of Caller as it may be written: bare, with the suffix of the
\* gateway, between blanks, with a dash.
SpelledPhones ==
    {Phone(Caller, <<>>), Phone(Caller, Jid), <<" ">> \o Caller \o <<" ">>,
     <<"51999", "-", "000001">>}

\* SessionManager._sessions, the sessions by clean phone: session under the
\* key of Caller, other under the second key in use.
_sessions ==
    [k \in {clean_phone(phone) : phone \in ServerPhones \cup SpelledPhones} |->
        IF k = Caller THEN session ELSE other]

SESSION_TTL_HOURS == 24

\* get_session, lines 26 to 33, with ">=" in line 29.
get_session_at_ttl(s, age) == IF age >= SESSION_TTL_HOURS THEN UserSession ELSE s

\* get_session, lines 23 to 33, for the stored session s whose last activity
\* was age hours ago (a phone without a session has the new one of Init).
get_session(s, age) == IF age > SESSION_TTL_HOURS THEN UserSession ELSE s

\* handle_message, step 1, as a function of the session.
authenticate(s, lists, identified) ==
    IF identified
    THEN Ret(load_user_context(authenticate_user(s), lists),
             Reply("welcome", [products |-> IF lists = "answer" THEN Len(Catalogue) ELSE 0]),
             <<[op |-> "identify_client", identified |-> TRUE]>> \o ListCalls)
    ELSE Ret(s, Reply("not_registered", NoData),
             <<[op |-> "identify_client", identified |-> FALSE]>>)

\* handle_message, step 2, as a function of the session.
verify_terms(m, s) ==
    IF is_confirmation(m)
    THEN Ret([s EXCEPT !.terms_accepted = TRUE], Reply("terms_accepted", NoData), <<>>)
    ELSE Ret(s, IF is_cancellation(m) THEN Reply("terms_refused", NoData)
                ELSE Reply("terms_needed", NoData), <<>>)

\* MainOrchestrator.handle_message on the session s that get_session
\* returned: steps 1 to 9.
orchestrate(m, s, env, lists, identified) ==
    IF ~s.authenticated THEN authenticate(s, lists, identified)
    ELSE IF ~s.terms_accepted THEN verify_terms(m, s)
    ELSE handle_message(m, s, env, lists)

\* The hours since last_activity after a turn on the session s that
\* get_session returned for the age: a new session starts at 0, and
\* add_message (line 107, schemas.py 193) sets last_activity past the gates.
Activity(s, age) ==
    IF age > SESSION_TTL_HOURS \/ (s.authenticated /\ s.terms_accepted) THEN 0 ELSE age

Remove(seq, i) == SubSeq(seq, 1, i - 1) \o SubSeq(seq, i + 1, Len(seq))

\* The requests of the phone key among the requests reqs.
RequestsOf(reqs, key) == SelectSeq(reqs, LAMBDA r : clean_phone(r.phone) = key)

ServerUtterances == {U_full, U_si}

MaxArrived == 2

MaxQueueTurns == 3

MaxArrivedCallers == 1

MaxCallersTurns == 2

\* A request reaches the server while it handles another one, or none.
Arrive(Ps, U, cap, max) ==
    /\ Len(arrived) < cap
    /\ \E phone \in Ps, m \in U :
          /\ UserTurns(_sessions[clean_phone(phone)])
                + Len(RequestsOf(arrived, clean_phone(phone))) < max
          /\ arrived' = Append(arrived, [phone |-> phone, m |-> m])
    /\ UNCHANGED <<session, message, reply, calls, idle, other>>

\* The turn of the request req on the stored session, and what it leaves.
Handled(req, key, ret) ==
    /\ message' = req.m
    /\ reply' = ret.r
    /\ calls' = ret.c
    /\ session' = IF key = Caller THEN ret.s ELSE session
    /\ other' = IF key = Caller THEN other ELSE ret.s

\* converse run by two workers at once: both turns start from the stored
\* session and the second one stores its result.
ConverseOverlapped ==
    /\ \E i \in DOMAIN arrived, j \in DOMAIN arrived, env \in Envs :
          /\ i < j
          /\ clean_phone(arrived[i].phone) = clean_phone(arrived[j].phone)
          /\ \E key \in {clean_phone(arrived[i].phone)} :
             \E r1 \in {orchestrate(arrived[i].m, _sessions[key], env, "answer", TRUE)},
                r2 \in {orchestrate(arrived[j].m, _sessions[key], env, "answer", TRUE)} :
                 /\ Handled(arrived[j], key, Ret(r2.s, r2.r, r1.c \o r2.c))
                 /\ arrived' = Remove(Remove(arrived, j), i)
    /\ UNCHANGED idle

\* routes.converse: the coroutine calls handle_message and never awaits, so
\* the event loop runs one request from get_session to the reply before it
\* starts another; the order of the requests that wait is not fixed.
Converse ==
    /\ \E i \in DOMAIN arrived, env \in Envs, lists \in Lists, identified \in BOOLEAN :
          \E key \in {clean_phone(arrived[i].phone)} :
          \E ret \in {orchestrate(arrived[i].m, get_session(_sessions[key], 0),
                                  env, lists, identified)} :
              /\ Handled(arrived[i], key, ret)
              /\ arrived' = Remove(arrived, i)
    /\ UNCHANGED idle

\* One caller, whose requests wait for the event loop.
NextQueue ==
    \/ Arrive(CallerPhones, ServerUtterances, MaxArrived, MaxQueueTurns)
    \/ Converse

SpecQueue == Init /\ [][NextQueue]_vars

\* One caller, who writes the number in several ways.
NextSpellings ==
    \/ Arrive(SpelledPhones, ServerUtterances, MaxArrivedCallers, MaxCallersTurns)
    \/ Converse

SpecSpellings == Init /\ [][NextSpellings]_vars

\* Two callers.
NextCallers ==
    \/ Arrive(ServerPhones, ServerUtterances, MaxArrivedCallers, MaxCallersTurns)
    \/ Converse

SpecCallers == Init /\ [][NextCallers]_vars

\* The caller waits: d more hours pass since last_activity (counted up to
\* one hour past the time to live).
Elapse(Ws) ==
    /\ idle <= SESSION_TTL_HOURS
    /\ \E d \in Ws :
          idle' = IF idle + d > SESSION_TTL_HOURS THEN SESSION_TTL_HOURS + 1 ELSE idle + d
    /\ UNCHANGED <<session, message, reply, calls, arrived, other>>

\* A message handled as it arrives, idle hours after the last activity of
\* the session: get_session, then handle_message on what it returns.
Message(U, max) ==
    /\ \E m \in U, env \in Envs, lists \in Lists, identified \in BOOLEAN :
          \E s \in {get_session(session, idle)} :
              /\ ~(s.authenticated /\ s.terms_accepted) \/ UserTurns(s) < max
              /\ \E ret \in {orchestrate(m, s, env, lists, identified)} :
                    /\ message' = m
                    /\ session' = ret.s
                    /\ reply' = ret.r
                    /\ calls' = ret.c
                    /\ idle' = Activity(s, idle)
    /\ UNCHANGED <<arrived, other>>

ClockUtterances == {U_full, U_si}

Waits == {1, SESSION_TTL_HOURS}

MaxClockTurns == 2

\* One caller, who lets time pass between the messages.
NextClock ==
    \/ Elapse(Waits)
    \/ Message(ClockUtterances, MaxClockTurns)

SpecClock == Init /\ [][NextClock]_vars

(***************************************************************************)
(* The properties.                                                         *)
(***************************************************************************)
\* The issuance calls among the service calls cs.
EmitCalls(cs) == {cs[i] : i \in {k \in DOMAIN cs : cs[k].op = "emit_invoice"}}

\* The check-client calls among the service calls cs.
CheckCalls(cs) == {cs[i] : i \in {k \in DOMAIN cs : cs[k].op = "check_client"}}

\* The step is a turn past the two gates (steps 3 to 9 of handle_message).
IsTurn ==
    /\ session.authenticated /\ session.terms_accepted
    /\ \A i \in DOMAIN calls' : calls'[i].op # "identify_client"

\* The emission machine is idle.
Idle(s) ==
    /\ s.emission_data = EmissionData
    /\ ~s.awaiting_confirmation /\ ~s.awaiting_client_reconfirmation

\* C1: the issuance call is made only when, at the moment of the call,
\* EmissionData has a document kind, a currency, an ID type and number, at
\* least one item and client_validated = true; the payload carries them.
C1_IssuanceOnlyWhenComplete ==
    \A c \in EmitCalls(calls) :
        /\ c.emission.document_type # None /\ c.emission.currency # None
        /\ c.emission.id_type # None /\ c.emission.id_number # None
        /\ c.emission.items # <<>>
        /\ c.emission.client_validated
        /\ c.tdocod = c.emission.document_type /\ c.clinum = c.emission.id_number
        /\ Len(c.detpro) = Len(c.emission.items)

\* A document was issued to a RUC given without a document word: the
\* document kind was missing at the review and read from the conversation
\* before the call.
C1_Witness ==
    \E c \in EmitCalls(calls) :
        /\ c.success = "TRUE" /\ c.emission.id_type = "6"
        /\ reply.kind = "emitted"

\* C2: an issuance call happens only in a turn that starts with
\* awaiting_confirmation = true (and no reconfirmation pending) and whose
\* utterance is an affirmative; awaiting_confirmation becomes true only in a
\* turn whose reply is the review, so the review precedes every issuance.
C2_IssuanceOnlyOnAffirmedReview ==
    [][/\ EmitCalls(calls') # {} =>
            /\ IsTurn
            /\ session.awaiting_confirmation /\ ~session.awaiting_client_reconfirmation
            /\ is_confirmation(message')
       /\ (session'.awaiting_confirmation /\ ~session.awaiting_confirmation) =>
            reply'.kind = "review"
      ]_vars

\* The review was shown, the user affirmed, and the issuance call was made.
C2_Witness ==
    /\ EmitCalls(calls) # {}
    /\ message = U_si
    /\ Len(session.messages) >= 4
    /\ session.messages[Len(session.messages) - 2].content.kind = "review"

\* C3: after a turn that ends in a successful issuance, and after a turn in
\* which a cancellation is processed (the negative at the review, a
\* cancellation word in the emission handler, the CANCEL intent),
\* EmissionData equals its initial value and both awaiting flags are false.
C3_ResetAfterSuccessOrCancel ==
    [][(/\ IsTurn
        /\ \/ \E c \in EmitCalls(calls') : c.success = "TRUE"
           \/ reply'.kind \in {"emitted", "cancelled_short", "cancelled_op", "cancelled"})
       => Idle(session')
      ]_vars

\* The user said no at the review of an emission with items and a validated
\* client, and the emission is back to its initial value.
C3_Witness ==
    /\ reply.kind = "cancelled_short"
    /\ message = U_no
    /\ Len(session.messages) >= 3
    /\ session.messages[Len(session.messages) - 1].content.kind = "review"
    /\ Idle(session)

\* C4: when the issuance call fails (the service answers with a success
\* other than "TRUE", or the call raises), the emission is reset: after that
\* turn EmissionData equals its initial value and both awaiting flags are
\* false.
C4_ResetAfterFailedIssuance ==
    [][(/\ IsTurn
        /\ \E c \in EmitCalls(calls') : c.success # "TRUE")
       => Idle(session')
      ]_vars

\* The utterance is one of the explicit cancellation keywords.
ExplicitCancellation(m) ==
    \/ Len(m) = 1 /\ m[1] \in {W("cancelar"), W("olvida"), W("salir")}
    \/ m = <<W("no"), W("quiero")>>

\* C5: cancellation is recognized in every post-gate state of the emission
\* machine: a turn whose utterance is an explicit cancellation keyword makes
\* no check-client and no issuance call and leaves EmissionData initial, both
\* awaiting flags false and pending_items empty.
C5_CancellationEverywhere ==
    [][(IsTurn /\ ExplicitCancellation(message'))
       => /\ EmitCalls(calls') = {} /\ CheckCalls(calls') = {}
          /\ Idle(session')
          /\ session'.pending_items = <<>>
      ]_vars

\* s is a prefix of t.
IsPrefix(s, t) == Len(s) <= Len(t) /\ SubSeq(t, 1, Len(s)) = s

\* C6: when check-client reports not-found, the items already captured are
\* kept (and echoed) and awaiting_client_reconfirmation is set; while the
\* reconfirmation is pending the items do not change; when the user then
\* supplies an ID that check-client finds, the review lists exactly the
\* captured items, in the same order, with the corrected ID.
C6_ItemsSurviveReconfirmation ==
    [][IsTurn =>
        /\ reply'.kind = "client_not_found"
           => /\ session'.awaiting_client_reconfirmation
              /\ IsPrefix(session.emission_data.items, session'.emission_data.items)
              /\ reply'.data.items = session'.emission_data.items
        /\ (session.awaiting_client_reconfirmation /\ CheckCalls(calls') # {})
           => /\ session'.emission_data.items = session.emission_data.items
              /\ session'.emission_data.id_number = _extract_document_number(message').number
              /\ \A c \in CheckCalls(calls') : c.number = session'.emission_data.id_number
        /\ (/\ session.awaiting_client_reconfirmation
            /\ \E c \in CheckCalls(calls') : c.valid
            /\ session.emission_data.items # <<>>)
           => /\ reply'.kind = "review"
              /\ reply'.data.items = session.emission_data.items
              /\ reply'.data.id_number = _extract_document_number(message').number
        /\ (session.awaiting_client_reconfirmation /\ session'.awaiting_client_reconfirmation)
           => session'.emission_data.items = session.emission_data.items
      ]_vars

\* A review that follows a not-found answer: it lists the items the
\* not-found reply echoed, with another ID number.
C6_Witness ==
    /\ reply.kind = "review"
    /\ Len(session.messages) >= 4
    /\ LET miss == session.messages[Len(session.messages) - 2].content
       IN  /\ miss.kind = "client_not_found"
           /\ miss.data.items # <<>>
           /\ reply.data.items = miss.data.items
           /\ reply.data.id_number # miss.data.id_number

\* The operation took s to t, and either left id_number alone or left the
\* client unvalidated and unnamed.
ClearsValidation(s, t) ==
    t.emission_data.id_number # s.emission_data.id_number
        => ~t.emission_data.client_validated /\ t.emission_data.client_name = None

\* In s a validated client has the ID number that check-client confirmed.
ValidatedIsChecked(s) ==
    s.emission_data.client_validated
        => /\ s.emission_data.id_number # None
           /\ s.emission_data.id_number \in Registered
           /\ s.emission_data.client_name = ClientName(s.emission_data.id_number)

\* What extract_all reads in each utterance of the two alphabets.
ExtractedFrom == [m \in Utterances \cup CatalogueUtterances |-> extract_all(m)]

\* C7: every operation that changes EmissionData.id_number (slot update from
\* an utterance, extraction from the conversation history, reset, client
\* reconfirmation) leaves client_validated false and client_name empty right
\* after the change, so that only a check-client answer for the new number
\* validates it; hence in every reachable state client_validated implies
\* that id_number is set and is the number check-client confirmed.
C7_IdChangeClearsValidation ==
    /\ [](/\ ValidatedIsChecked(session)
          /\ \A m \in DOMAIN ExtractedFrom :
                 ClearsValidation(session, update_session(session, ExtractedFrom[m]))
          /\ ClearsValidation(session, _extract_from_conversation(session))
          /\ ClearsValidation(session, reset_emission(session)))
    /\ [][(IsTurn /\ session'.emission_data.id_number # session.emission_data.id_number)
          => IF session'.emission_data.client_validated
             THEN \E c \in CheckCalls(calls') :
                      c.valid /\ c.number = session'.emission_data.id_number
             ELSE session'.emission_data.client_name = None
         ]_vars

\* A validated client whose ID number replaced, during client
\* reconfirmation, one that check-client had not found.
C7_Witness ==
    /\ session.emission_data.client_validated
    /\ Len(session.messages) >= 4
    /\ LET miss == session.messages[Len(session.messages) - 2].content
       IN  /\ miss.kind = "client_not_found"
           /\ miss.data.id_number # session.emission_data.id_number

\* The last five messages of the history are: the "product selected" reply
\* to the affirmed "emit?" question, a document kind, its reply, a client ID,
\* and the review.
SeededReview ==
    LET n == Len(session.messages) IN
    /\ reply.kind = "review"
    /\ n >= 5
    /\ session.messages[n].role = "assistant"
    /\ session.messages[n].content = reply
    /\ session.messages[n - 1].role = "user"
    /\ _extract_document_number(session.messages[n - 1].content) # NoId
    /\ session.messages[n - 3].role = "user"
    /\ session.messages[n - 3].content \in {U_boleta, U_factura}
    /\ session.messages[n - 4].role = "assistant"
    /\ session.messages[n - 4].content.kind = "product_selected"

\* C8: catalogue-seeded emission: after the user selects a product, affirms
\* the "emit?" question, then gives a document kind and a client ID that
\* check-client finds, the review contains exactly one item: that product,
\* with quantity 1 and the product's catalogue price.
C8_SeededReviewHasCataloguePrice ==
    SeededReview =>
        LET product == session.messages[Len(session.messages) - 4].content.data IN
        /\ Len(reply.data.items) = 1
        /\ reply.data.items[1].cantidad = "1"
        /\ reply.data.items[1].descripcion = product.pronom
        /\ reply.data.items[1].precio.s = product.provun

\* The step appended every pending item, with some price, to
\* EmissionData.items and emptied pending_items.
PendingPriced ==
    LET pending == session.pending_items
        old == session.emission_data.items
        new == session'.emission_data.items
    IN  /\ pending # <<>>
        /\ session'.pending_items = <<>>
        /\ Len(new) = Len(old) + Len(pending)
        /\ \A i \in DOMAIN pending :
               /\ new[Len(old) + i].descripcion = pending[i].descripcion
               /\ new[Len(old) + i].cantidad = pending[i].cantidad

\* C9: while pending_items is non-empty a unit price is applied only when
\* the utterance consists solely of a number, and then every pending item
\* gets that price; an utterance with other content (for example one carrying
\* a DNI or RUC) does not price the pending items.
C9_PriceOnlyFromBareNumber ==
    [][(IsTurn /\ PendingPriced)
       => /\ Len(message') = 1 /\ IsNum(message'[1])
          /\ \A i \in DOMAIN session.pending_items :
                 session'.emission_data.items[Len(session.emission_data.items) + i].precio.s
                     = message'[1].s
      ]_vars

\* C10: an invoice requires a RUC: an issuance call with document kind 01 is
\* only ever made with ID type 6.
C10_InvoiceRequiresRuc ==
    \A c \in EmitCalls(calls) : c.tdocod = "01" => c.tdicod = "6"

\* C11: a transport error (timeout, connection refused, 5xx) during the
\* check-client call is surfaced as an error and does not mutate the session:
\* the client is not reported as not found, awaiting_client_reconfirmation
\* is not set, and the other flag and the validation are as before.
C11_TransportErrorLeavesSession ==
    [][(IsTurn /\ \E c \in CheckCalls(calls') : c.error)
       => /\ reply'.kind # "client_not_found"
          /\ ~session'.awaiting_client_reconfirmation
          /\ session'.awaiting_confirmation = session.awaiting_confirmation
          /\ ~session'.emission_data.client_validated
      ]_vars

\* The step handles a message on the session the caller already had (the
\* session was not replaced by a new one after the TTL).
SameSession ==
    ~(session.authenticated /\ \E i \in DOMAIN calls' : calls'[i].op = "identify_client")

\* C12: session_emissions grows by exactly one EmissionRecord, that of the
\* emission issued, in a turn whose issuance call succeeded, and is unchanged
\* in every other turn: no record is appended when the issuance is rejected
\* or the call raises.
C12_OneRecordPerSuccess ==
    [][SameSession =>
        LET old == session.session_emissions
            new == session'.session_emissions
            done == {c \in EmitCalls(calls') : c.success = "TRUE"}
        IN  IF done # {}
            THEN /\ Cardinality(EmitCalls(calls')) = 1
                 /\ Len(new) = Len(old) + 1
                 /\ SubSeq(new, 1, Len(old)) = old
                 /\ \A c \in done :
                        /\ new[Len(new)].client_id = c.clinum
                        /\ new[Len(new)].items_count = Len(c.detpro)
                        /\ new[Len(new)].currency = c.mondoc
            ELSE new = old
      ]_vars

\* A turn issued an emission and the session holds its record.
C12_Witness ==
    /\ Len(session.session_emissions) = 1
    /\ \E c \in EmitCalls(calls) : c.success = "TRUE"
    /\ reply.kind = "emitted"

\* C13: while the session is not authenticated or the terms are not
\* accepted, handle_message performs no domain logic: no check-client or
\* issuance call, EmissionData, the dialogue flags, pending_items, the
\* conversation context and the history unchanged (the utterance is not kept,
\* so it is never read as emission data); terms_accepted becomes true only
\* through an affirmative utterance at the terms gate.
C13_GatesPrecedeDomainLogic ==
    [][/\ (~session.authenticated \/ ~session.terms_accepted)
          => /\ EmitCalls(calls') = {} /\ CheckCalls(calls') = {}
             /\ session'.emission_data = session.emission_data
             /\ session'.awaiting_confirmation = session.awaiting_confirmation
             /\ session'.awaiting_client_reconfirmation
                    = session.awaiting_client_reconfirmation
             /\ session'.pending_items = session.pending_items
             /\ session'.conversation_context = session.conversation_context
             /\ session'.messages = session.messages
       /\ (session'.terms_accepted /\ ~session.terms_accepted)
          => /\ session.authenticated
             /\ is_confirmation(message')
             /\ reply'.kind = "terms_accepted"
      ]_vars

\* A complete emission request sent at the terms gate: the terms are asked
\* again and nothing of the request is kept.
C13_Witness ==
    /\ session.authenticated /\ ~session.terms_accepted
    /\ message = U_full
    /\ reply.kind = "terms_needed"
    /\ session.emission_data = EmissionData
    /\ session.messages = <<>>

\* The issuance calls among the service calls cs, in their order.
EmitCallSeq(cs) == SelectSeq(cs, LAMBDA c : c.op = "emit_invoice")

\* The step handles the request at position i of those that wait.
HandlesRequest(i) ==
    /\ i \in DOMAIN arrived
    /\ arrived' = Remove(arrived, i)
    /\ message' = arrived[i].m

\* C14: the requests of a caller are handled one at a time.  A step of the
\* server takes exactly one of the requests that wait and the others keep
\* waiting; the turn makes at most one issuance call, and it makes one only
\* when it starts with the review pending in the stored session and it
\* leaves the review not pending, so that the affirmative that waited behind
\* it finds no review to confirm.
C14_OneTurnAtATime ==
    [][Len(arrived') < Len(arrived)
       => /\ \E i \in DOMAIN arrived : HandlesRequest(i)
          /\ Len(EmitCallSeq(calls')) <= 1
          /\ EmitCallSeq(calls') # <<>>
                => /\ session.awaiting_confirmation
                   /\ ~session'.awaiting_confirmation]_vars

\* The first of two affirmatives to one review has been handled and has
\* called the issuing service; the second one still waits.
C14_Witness ==
    /\ Len(arrived) = 1 /\ arrived[1].m = U_si /\ message = U_si
    /\ EmitCallSeq(calls) # <<>>
    /\ ~session.awaiting_confirmation

\* The answers of the issuing service that agree with the calls cs.
EnvsOf(cs) ==
    {env \in Envs :
        /\ \A c \in CheckCalls(cs) : c.error = (env.check = "error")
        /\ \A c \in EmitCalls(cs) : c.success = env.emit}

\* The step is a turn on the session own alone: what it leaves, says and
\* calls is what handle_message does with the message and own.
TurnOn(own, left) ==
    \E env \in EnvsOf(calls'), lists \in Lists, identified \in BOOLEAN :
        \E ret \in {orchestrate(message', own, env, lists, identified)} :
            /\ left = ret.s
            /\ reply' = ret.r
            /\ calls' = ret.c

\* The digits of the number in the phone string.
Digits(phone) == SelectSeq(BeforeAt(phone), LAMBDA c : c \notin {" ", "-"})

\* C15: a turn of one caller leaves the session of the other caller as it
\* is (EmissionData, flags, pending_items, history, context and
\* session_emissions), and what the turn leaves, says and calls is a
\* function of the message and of the session of its own caller only.
C15_CallersAreIsolated ==
    [][\A i \in DOMAIN arrived :
          HandlesRequest(i)
            => IF Digits(arrived[i].phone) = Caller
               THEN other' = other /\ TurnOn(session, session')
               ELSE session' = session /\ TurnOn(other, other')]_vars

\* A turn of the second caller has issued their document while the first
\* caller has a review pending.
C15_Witness ==
    /\ session.awaiting_confirmation /\ session.emission_data.items # <<>>
    /\ Len(other.session_emissions) = 1
    /\ reply.kind = "emitted"

\* What step 1 leaves of a new session.
NewSessions == {UserSession} \cup {load_user_context(authenticate_user(UserSession), l) : l \in Lists}

\* C16: a message that arrives when the time since last_activity does not
\* exceed SESSION_TTL_HOURS is handled on the stored session; one that
\* arrives later is handled on a new session (initial EmissionData, flags
\* false, no history, no session_emissions, terms not accepted), which
\* step 1 greets: whatever review was pending, the turn issues nothing.
C16_SessionExpiresAfterTtl ==
    [][(idle' <= idle /\ <<session, message, reply, calls>>' # <<session, message, reply, calls>>)
       => IF idle > SESSION_TTL_HOURS
          THEN /\ session' \in NewSessions
               /\ reply'.kind \in {"welcome", "not_registered"}
               /\ EmitCallSeq(calls') = <<>>
          ELSE TurnOn(session, session')]_vars

\* The caller has left a review pending for more than the time to live.
C16_Witness ==
    /\ idle > SESSION_TTL_HOURS
    /\ session.awaiting_confirmation
    /\ reply.kind = "review"

\* C17: no two items of the emission have the same description and the
\* same price.
C17_NoDuplicateItems ==
    LET items == session.emission_data.items
    IN  \A i, j \in DOMAIN items : i # j => ItemKey(items[i]) # ItemKey(items[j])

\* C18: for every session the program reaches and every utterance, reading
\* the utterance and updating the session with it a second time leaves the
\* EmissionData (document kind, ID, currency, items) that the first update
\* left.
C18_UpdateIsIdempotent ==
    \A m \in DOMAIN ExtractedFrom :
        \E once \in {update_session(session, ExtractedFrom[m])} :
            update_session(once, ExtractedFrom[m]).emission_data = once.emission_data

\* The turn has read a document kind, an ID and an item in the utterance
\* and has put them into the session.
C18_Witness ==
    /\ message = U_full
    /\ session.emission_data.document_type = "03"
    /\ session.emission_data.id_number = "12345678"
    /\ Len(session.emission_data.items) = 1

\* The utterance m names no document kind.
NoDocumentKeyword(m) == ~HasWord(m, "factura") /\ ~HasWord(m, "boleta")

\* C19: on a session without a document kind, a turn whose utterance
\* carries a DNI and no document keyword leaves the document kind 03; a turn
\* whose utterance carries a RUC and no document keyword leaves it unset,
\* and so does every later turn on the RUC whose utterance names no
\* document kind and carries no ID.
C19_DniInfersReceipt ==
    [][(IsTurn /\ session.emission_data.document_type = None /\ NoDocumentKeyword(message'))
       => /\ ExtractedFrom[message'].id_type = "1"
                => session'.emission_data.document_type = "03"
          /\ (\/ ExtractedFrom[message'].id_type = "6"
              \/ /\ ExtractedFrom[message'].id_type = None
                 /\ session.emission_data.id_type = "6")
                => session'.emission_data.document_type = None]_vars

\* Utterances that are one integer: of one or two digits, and longer ones.
BareSmallIntegers == {<<N("1")>>, <<N("0")>>, <<N("15")>>, <<N("99")>>}
BareIntegers == BareSmallIntegers \cup {<<N("100")>>, <<N("12345678")>>}

\* The session s, and s in each of the contexts a number is resolved in.
InNumberContexts(s) ==
    {s} \cup {set_context(s, c) : c \in {"products", "search_results", "history", "today_emissions"}}

\* classify resolves the utterance m by the context of the session s.
ResolvedByContext(m, s) ==
    /\ _get_conversation_context(s) \in {"products", "search_results"}
          => classify(m, s) = "QUERY_PRODUCTS"
    /\ _get_conversation_context(s) \in {"history", "today_emissions"}
          => classify(m, s) = "QUERY_HISTORY"

\* C20 as stated: classify resolves every bare integer by the context,
\* whatever awaiting_confirmation and EmissionData are.
C20_BareIntegerByContext ==
    \A m \in BareIntegers, s \in InNumberContexts(session) : ResolvedByContext(m, s)

\* C20, amended: classify resolves every bare integer of one or two digits
\* by the context, whatever awaiting_confirmation and EmissionData are.
C20_BareSmallIntegerByContext ==
    \A m \in BareSmallIntegers, s \in InNumberContexts(session) : ResolvedByContext(m, s)

\* The session shows the products to choose from by number while an
\* emission is under way, and classify reads "1" as a choice among them.
C20_Witness ==
    /\ _get_conversation_context(session) = "products"
    /\ _has_active_emission(session)
    /\ classify(U_uno, session) = "QUERY_PRODUCTS"

\* The requests for the lists of the account among the service calls cs.
ListRequests(cs) ==
    SelectSeq(cs, LAMBDA c : c.op \in {"get_products", "get_clients", "get_history"})

\* C21: the context of an authenticated session is loaded, with the lists
\* or with empty lists when the load failed, and a turn that does not
\* authenticate a new session requests no list again.
C21_ContextLoadedOnce ==
    /\ [](session.authenticated => session.context.loaded)
    /\ [][(\A i \in DOMAIN calls' : calls'[i].op # "identify_client")
            => ListRequests(calls') = <<>>]_vars

\* A turn past the gates on a session whose load failed: the context is
\* stamped, its lists are empty, and the turn requested nothing.
C21_Witness ==
    /\ session.authenticated /\ session.terms_accepted
    /\ session.context.loaded /\ session.context.products = <<>>
    /\ UserTurns(session) >= 1
    /\ ListRequests(calls) = <<>>

\* The step is a turn past the gates that adds the k last messages of the
\* history it leaves: the utterance first, and the older messages that
\* still fit before them, in their order.
AddsRecent(k) ==
    /\ k <= Len(session'.messages)
    /\ \E added \in {Last(session'.messages, k)} :
          /\ added[1] = [role |-> "user", content |-> message']
          /\ \A i \in 2..k : added[i].role = "assistant"
          /\ session'.messages = Last(session.messages \o added, MAX_CONVERSATION_HISTORY)

\* C22: the history never holds more than 20 messages, and a turn leaves
\* the most recent ones: the history before it, then the utterance and the
\* reply (or the utterance alone), cut to the last 20.
C22_HistoryKeepsLast20 ==
    /\ [](Len(session.messages) <= MAX_CONVERSATION_HISTORY)
    /\ [][IsTurn => (AddsRecent(2) \/ AddsRecent(1))]_vars

\* The history is full and the utterance of the last turn and its reply
\* are at its end.
C22_Witness ==
    /\ Len(session.messages) = MAX_CONVERSATION_HISTORY
    /\ session.messages[MAX_CONVERSATION_HISTORY - 1] = [role |-> "user", content |-> message]
    /\ session.messages[MAX_CONVERSATION_HISTORY] = [role |-> "assistant", content |-> reply]

\* C23: every spelling of the number of a caller (with the suffix of the
\* gateway, between blanks, with a dash) has the key of the bare number, so
\* a request under any of them is handled on the session of that caller.
C23_SpellingsShareSession ==
    /\ [](\A phone \in SpelledPhones : clean_phone(phone) = Caller)
    /\ [][\A i \in DOMAIN arrived :
            (HandlesRequest(i) /\ Digits(arrived[i].phone) = Caller)
               => other' = other /\ TurnOn(session, session')]_vars

\* The canned answer of each stock general question.
CannedAnswer ==
    [m \in {U_diferencia, U_igv, U_como_emitir} |->
        IF m = U_diferencia THEN "difference"
        ELSE IF m = U_igv THEN "igv" ELSE "how_to_emit"]

\* C24: a stock general question asked while no emission is in progress is
\* answered with its canned answer, and the turn changes neither
\* EmissionData nor the awaiting flags.
C24_GeneralQuestionsAreCanned ==
    [][(/\ IsTurn /\ message' \in DOMAIN CannedAnswer
        /\ ~_has_active_emission(session)
        /\ ~session.awaiting_confirmation /\ ~session.awaiting_client_reconfirmation)
       => /\ reply'.kind = CannedAnswer[message']
          /\ session'.emission_data = session.emission_data
          /\ session'.awaiting_confirmation = session.awaiting_confirmation
          /\ session'.awaiting_client_reconfirmation
                = session.awaiting_client_reconfirmation]_vars

\* C25: whenever awaiting_confirmation is set, EmissionData has a document
\* kind, an ID type and number, at least one item and a validated client.
C25_ReviewHasAllFields ==
    session.awaiting_confirmation
       => /\ session.emission_data.document_type # None
          /\ session.emission_data.id_type # None
          /\ session.emission_data.id_number # None
          /\ session.emission_data.items # <<>>
          /\ session.emission_data.client_validated

\* The replies of the assistant in the history of s.
AssistantReplies(s) == SelectSeq(s.messages, LAMBDA msg : msg.role = "assistant")

\* The most recent assistant reply of s is the review.
ReviewIsLastReply(s) ==
    /\ AssistantReplies(s) # <<>>
    /\ AssistantReplies(s)[Len(AssistantReplies(s))].content.kind = "review"

\* C26: while awaiting_confirmation is set the most recent assistant reply
\* of the session is the review; awaiting_confirmation is not set after a
\* turn that confirms or cancels the review or that resets the emission.
C26_AwaitingMeansReviewShown ==
    /\ [](session.awaiting_confirmation => ReviewIsLastReply(session))
    /\ [][(/\ IsTurn
            /\ \/ /\ session.awaiting_confirmation
                  /\ (is_confirmation(message') \/ is_cancellation(message'))
               \/ /\ session.emission_data # EmissionData
                  /\ session'.emission_data = EmissionData)
           => ~session'.awaiting_confirmation]_vars

\* The flag awaiting_client_reconfirmation is set by the step only when a
\* check-client call of the step answered that the client was not found.
SetByNotFound ==
    (~session.awaiting_client_reconfirmation /\ session'.awaiting_client_reconfirmation)
       => \E c \in CheckCalls(calls') : ~c.valid /\ ~c.error

\* A turn on a session whose flag is set is the reconfirmation: a
\* cancellation resets the emission, a candidate DNI/RUC is checked and the
\* flag stays cleared unless that check fails too, anything else leaves
\* EmissionData and the flag as they were.
HandledByReconfirmation ==
    (IsTurn /\ session.awaiting_client_reconfirmation)
       => IF _is_cancellation(message')
          THEN /\ reply'.kind = "cancelled_op"
               /\ session'.emission_data = EmissionData
               /\ ~session'.awaiting_client_reconfirmation
          ELSE IF _extract_document_number(message') # NoId
          THEN /\ session'.emission_data.id_number
                    = _extract_document_number(message').number
               /\ \E c \in CheckCalls(calls') :
                     /\ c.number = _extract_document_number(message').number
                     /\ session'.awaiting_client_reconfirmation = ~c.valid
          ELSE /\ reply'.kind = "no_valid_document"
               /\ session'.emission_data = session.emission_data
               /\ session'.awaiting_client_reconfirmation

\* C27: awaiting_client_reconfirmation is set only by a check-client answer
\* of not found, and while it is set every turn past the gates is handled by
\* the reconfirmation logic alone.
C27_ReconfirmationOnly == [][SetByNotFound /\ HandledByReconfirmation]_vars

\* C28: pending_items is non-empty only while the last reply asked for a
\* unit price, and selected_product is set only while the conversation
\* context is product_detail.
C28_PendingAndSelectedScoped ==
    /\ session.pending_items # <<>> => reply.kind = "ask_price"
    /\ session.selected_product # NoProduct
          => session.conversation_context = "product_detail"

\* The utterance names a currency.
MentionsCurrency(m) ==
    \E w \in {"dolar", "dolares", "usd", "$", "soles", "sol", "pen", "s/"} : HasSub(m, w)

\* The EmissionData of s after extract_all and update_session on m.
Updated(s, m) == update_session(s, extract_all(m)).emission_data

\* C29: update_session leaves a populated slot of EmissionData (document
\* kind, ID type and number, a currency other than the default) as it is
\* when the utterance does not mention that slot.
C29_UpdateKeepsPopulatedSlots ==
    \A m \in CurrencyUtterances :
        /\ (session.emission_data.document_type # None
               /\ ~HasWord(m, "factura") /\ ~HasWord(m, "boleta"))
              => Updated(session, m).document_type = session.emission_data.document_type
        /\ (session.emission_data.id_type # None /\ extract_all(m).id_type = None)
              => /\ Updated(session, m).id_type = session.emission_data.id_type
                 /\ Updated(session, m).id_number = session.emission_data.id_number
        /\ (session.emission_data.currency # EmissionData.currency /\ ~MentionsCurrency(m))
              => Updated(session, m).currency = session.emission_data.currency

\* C30: a message on a session that is not authenticated calls
\* identify_client.  If the call fails the session is left as it was,
\* unauthenticated and without client_data, and the reply is the support
\* contact, so the next message identifies again; if it answers, the
\* session is authenticated with the terms not accepted and the reply is
\* the welcome that asks to accept the terms.
C30_AuthenticationGate ==
    [][~session.authenticated
        => /\ calls' # <<>> /\ calls'[1].op = "identify_client"
           /\ IF calls'[1].identified
              THEN /\ session'.authenticated /\ ~session'.terms_accepted
                   /\ session'.client_data # None
                   /\ reply'.kind = "welcome"
              ELSE /\ session' = session
                   /\ ~session'.authenticated /\ session'.client_data = None
                   /\ reply'.kind = "not_registered"]_vars

C30_Witness ==
    /\ reply.kind = "not_registered"
    /\ ~session.authenticated /\ session.client_data = None
    /\ calls = <<[op |-> "identify_client", identified |-> FALSE]>>

\* The messages of the user and of the assistant alternate in the history.
Alternates(messages) ==
    \A i \in 1..(Len(messages) - 1) : messages[i].role # messages[i + 1].role

\* C31: every turn past the gates appends the utterance and then the reply
\* of the turn to the history, so the messages of the user and of the
\* assistant alternate.
C31_TurnAppendsBoth ==
    /\ [](Alternates(session.messages))
    /\ [][IsTurn
            => session'.messages
                 = Last(session.messages
                          \o <<[role |-> "user", content |-> message'],
                               [role |-> "assistant", content |-> reply']>>,
                        MAX_CONVERSATION_HISTORY)]_vars

\* The place in the utterance m where the description of the item appears.
AppearsAt(m, item) == MinOf({i \in DOMAIN m : m[i].s = item.descripcion})

\* C32: a turn that adds items to EmissionData.items keeps the items that
\* were there, in their order, and puts the new ones after them in the
\* order in which they appear in the utterance; the issuance payload lists
\* the items in the order of EmissionData.items.
C32_ItemsInOrderGiven ==
    /\ [][(IsTurn /\ Len(session'.emission_data.items) > Len(session.emission_data.items))
           => /\ SubSeq(session'.emission_data.items, 1, Len(session.emission_data.items))
                   = session.emission_data.items
              /\ \A i, j \in (Len(session.emission_data.items) + 1)
                                ..Len(session'.emission_data.items) :
                    i < j => AppearsAt(message', session'.emission_data.items[i])
                               < AppearsAt(message', session'.emission_data.items[j])]_vars
    /\ [](\A c \in EmitCalls(calls) :
             c.detpro = [i \in DOMAIN c.emission.items |-> c.emission.items[i].descripcion])

\* EmissionData has a document kind, a client ID that check-client found
\* and at least one priced item.
Complete(s) ==
    /\ s.emission_data.document_type # None
    /\ s.emission_data.id_number # None
    /\ s.emission_data.client_validated
    /\ s.emission_data.items # <<>>

\* The utterance m gives every slot that EmissionData of s still lacks: the
\* document kind, the client ID, a priced item (or the price of the items
\* that wait for one).
Supplies(m, s) ==
    /\ s.emission_data.document_type = None => extract_all(m).document_type # None
    /\ s.emission_data.id_number = None => extract_all(m).id_number # None
    /\ s.emission_data.items = <<>>
          => \/ extract_all(m).items # <<>>
             \/ (s.pending_items # <<>> /\ _extract_price(m) # NoPrice)

\* C33: the turn whose utterance completes the data (document kind, client
\* ID found by check-client, at least one priced item) is answered with the
\* review, and awaiting_confirmation is set.
C33_CompleteDataShowsReview ==
    [][(IsTurn /\ ~Complete(session) /\ Complete(session') /\ Supplies(message', session))
        => (reply'.kind = "review" /\ session'.awaiting_confirmation)]_vars

C33_Witness ==
    /\ UserTurns(session) = 3 /\ message = U_items
    /\ reply.kind = "review" /\ session.awaiting_confirmation
    /\ Complete(session)
    /\ session.emission_data.document_type = "01"
    /\ session.emission_data.id_number = "12345678"
    /\ Len(session.emission_data.items) = 1
    /\ session.messages[1].content = U_factura
    /\ session.messages[3].content = U_dni

\* No emission is under way on s: the catalogue dialogue.
InCatalogueDialogue(s) ==
    /\ ~_has_active_emission(s)
    /\ ~s.awaiting_confirmation /\ ~s.awaiting_client_reconfirmation

\* The rows of the list of the context of s.
Rows(s) ==
    IF s.conversation_context = "search_results" THEN s.search_results
    ELSE IF s.conversation_context = "products" THEN s.context.products
    ELSE <<>>

\* The utterance m is a bare number (re.match(r'^\d{1,2}$', ...)) of value n.
IsNumber(m, n) == Len(m) = 1 /\ IsNum(m[1]) /\ Len(m[1].s) <= 2 /\ IntOf(m[1].s) = n

ListRows(s) ==
    IF s.conversation_context = "history" THEN s.context.history ELSE Rows(s)

\* C35: in the context of a list (products, search_results, history) a
\* bare number that is not the number of a row, 0 included, selects
\* nothing: selected_product and the context stay as they were and the
\* reply says that the row was not found.
C35_OutOfRangeSelectsNothing ==
    [][(/\ IsTurn /\ InCatalogueDialogue(session)
        /\ session.conversation_context \in {"products", "search_results", "history"}
        /\ \E n \in (0..99) \ (1..Len(ListRows(session))) : IsNumber(message', n))
       => /\ session'.selected_product = session.selected_product
          /\ session'.conversation_context = session.conversation_context
          /\ reply'.kind \in {"product_not_found", "result_not_found",
                               "emission_not_found"}]_vars

\* The reviews shown in the history of s.
Reviews(s) ==
    SelectSeq(s.messages, LAMBDA msg : msg.role = "assistant" /\ msg.content.kind = "review")

\* The issuance call c sends what the review r displayed.
SendsReviewed(c, r) ==
    /\ c.tdocod = (IF r.data.tipo = "factura" THEN "01" ELSE "03")
    /\ c.clinum = r.data.id_number
    /\ c.emission.items = r.data.items

\* C36: an issuance call sends the document kind, the client ID and the
\* items that the most recent review of the session displayed.
C36_PayloadIsWhatWasReviewed ==
    [][\A c \in EmitCalls(calls') :
          /\ Reviews(session) # <<>>
          /\ SendsReviewed(c, Reviews(session)[Len(Reviews(session))].content)]_vars

\* The utterances of the user in the history of s.
UserTexts(s) ==
    {s.messages[i].content : i \in {k \in DOMAIN s.messages : s.messages[k].role = "user"}}

\* C37: the document kind, the client ID and the items of EmissionData
\* were given by the user: the kind by its keyword (or, for a receipt, by a
\* DNI), the ID and the description of each item by an utterance of the
\* session that holds them, or the item by a product of the catalogue.
C37_DataComesFromUser ==
    /\ session.emission_data.document_type = "01"
          => \E m \in UserTexts(session) : HasSub(m, "factura")
    /\ session.emission_data.document_type = "03"
          => \E m \in UserTexts(session) :
                \/ HasSub(m, "boleta")
                \/ \E i \in DOMAIN m : IsNum(m[i]) /\ Len(m[i].s) = 8
    /\ session.emission_data.id_number # None
          => \E m \in UserTexts(session) :
                \E i \in DOMAIN m : m[i].s = session.emission_data.id_number
    /\ \A k \in DOMAIN session.emission_data.items :
          \/ \E m \in UserTexts(session) :
                HasWord(m, session.emission_data.items[k].descripcion)
          \/ \E j \in DOMAIN Catalogue :
                Catalogue[j].pronom = session.emission_data.items[k].descripcion

\* C38: awaiting_confirmation and awaiting_client_reconfirmation are never
\* set together.
C38_AwaitingFlagsExclusive ==
    ~(session.awaiting_confirmation /\ session.awaiting_client_reconfirmation)

C38_Witness ==
    /\ UserTurns(session) = 3
    /\ session.messages[4].content.kind = "client_not_found"
    /\ reply.kind = "review"
    /\ session.awaiting_confirmation /\ ~session.awaiting_client_reconfirmation

\* The label of the kind a record of the session was issued as:
\* record_emission stores "Factura" for the kind 01 and "Boleta" otherwise.
IssuedAs(record) == IF record.document_type = "Factura" THEN "factura" ELSE "boleta"

\* C39: the detail view of an emission of the session names the kind the
\* document was issued as: Factura for an invoice (01), Boleta for a
\* receipt (03).
C39_DetailNamesIssuedKind ==
    reply.kind = "today_detail"
        => reply.data.tipo = IssuedAs(session.session_emissions[Len(session.session_emissions)])
====
